---- MODULE Spec2Model ----
(***************************************************************************)
(* A model of q's agent mode: the permission handler                       *)
(* (createPermissionHandler, promptToolApproval, assessRisk) and the       *)
(* streaming turn processor (runAgent, processAssistantMessage,            *)
(* handleResultMessage), with cancellation (query, streamQuery and the     *)
(* canUseTool wrapper of buildSdkOptions), the failure paths of a turn,    *)
(* the session store (its tables and exported calls), resumed turns, the   *)
(* highlighter of the markdown renderer, runPipe and runQuery, the         *)
(* markdown renderer (render, renderSync and the underscore pre-pass),     *)
(* and the turns of the interactive App component.                         *)
(*                                                                         *)
(* Strings whose characters matter (shell commands, prompt answers,        *)
(* assistant text) are sequences of one-character strings.                 *)
(***************************************************************************)
EXTENDS Naturals, Sequences, FiniteSets, TLC

\* ------------------------------------------------------------------------
\* Bounds of the model
\* ------------------------------------------------------------------------

\* Longest assistant text snapshot the stream delivers.
MaxLen == 2

\* Largest number of assistant messages the stream delivers in one turn.
MaxMsgs == 2

\* Largest number of writing calls made on the session store.
MaxOps == 3

\* ------------------------------------------------------------------------
\* Characters and strings
\* ------------------------------------------------------------------------

UpperCase ==
  <<"A","B","C","D","E","F","G","H","I","J","K","L","M",
    "N","O","P","Q","R","S","T","U","V","W","X","Y","Z">>

LowerCase ==
  <<"a","b","c","d","e","f","g","h","i","j","k","l","m",
    "n","o","p","q","r","s","t","u","v","w","x","y","z">>

DigitChars == {"0","1","2","3","4","5","6","7","8","9"}

\* The regex class \w.
WordChars ==
  {UpperCase[i] : i \in 1..26} \cup {LowerCase[i] : i \in 1..26}
    \cup DigitChars \cup {"_"}

\* The regex class \s (and what String.prototype.trim strips).
SpaceChars == {" ", "\t", "\n", "\r"}

\* The characters the regex dot does not match.
LineTerminators == {"\n", "\r"}

\* One character of String.prototype.toLowerCase, and of a /i regex match.
Lower(c) ==
  IF \E i \in 1..26 : UpperCase[i] = c
    THEN LowerCase[CHOOSE i \in 1..26 : UpperCase[i] = c]
    ELSE c

toLowerCase(s) == [i \in 1..Len(s) |-> Lower(s[i])]

\* String.prototype.trim: drop the leading and trailing white space.
trim(s) ==
  LET idx == {i \in 1..Len(s) : s[i] \notin SpaceChars}
  IN IF idx = {} THEN <<>>
     ELSE LET lo == CHOOSE i \in idx : \A j \in idx : i <= j
              hi == CHOOSE i \in idx : \A j \in idx : j <= i
          IN SubSeq(s, lo, hi)

\* String.prototype.slice(start) for 0 <= start.
slice(s, start) == SubSeq(s, start + 1, Len(s))

\* String.prototype.slice(0, end) for 0 <= end.
sliceTo(s, end) == SubSeq(s, 1, IF end < Len(s) THEN end ELSE Len(s))

IsPrefix(p, s) == Len(p) <= Len(s) /\ SubSeq(s, 1, Len(p)) = p

\* ------------------------------------------------------------------------
\* Regular-expression matching, as the patterns of assessRisk need it.
\* Positions run from 1 to Len(s) + 1.
\* ------------------------------------------------------------------------

IsWordAt(s, i) == i \in 1..Len(s) /\ s[i] \in WordChars

\* \b at position i: exactly one side is a word character.
Boundary(s, i) == IsWordAt(s, i - 1) # IsWordAt(s, i)

\* The literal lit (lower case when ci) matches s from position i on.
Lit(s, i, lit, ci) ==
  /\ i >= 1
  /\ i + Len(lit) - 1 <= Len(s)
  /\ \A k \in 1..Len(lit) :
       IF ci THEN Lower(s[i + k - 1]) = lit[k] ELSE s[i + k - 1] = lit[k]

\* The positions where a match of \s+ that starts at i can end.
WsPlus(s, i) ==
  {j \in (i + 1)..(Len(s) + 1) : \A k \in i..(j - 1) : s[k] \in SpaceChars}

\* The positions where a match of \s* that starts at i can end.
WsStar(s, i) == {i} \cup WsPlus(s, i)

\* The positions where a match of .* that starts at i can end.
DotStar(s, i) ==
  {j \in i..(Len(s) + 1) : \A k \in i..(j - 1) : s[k] \notin LineTerminators}

Positions(s) == 1..(Len(s) + 1)

\* /\brm\s+(-rf?|--recursive)/i
HighRm(s) ==
  \E i \in Positions(s) :
    /\ Boundary(s, i)
    /\ Lit(s, i, <<"r","m">>, TRUE)
    /\ \E j \in WsPlus(s, i + 2) :
         \/ Lit(s, j, <<"-","r","f">>, TRUE)
         \/ Lit(s, j, <<"-","r">>, TRUE)
         \/ Lit(s, j, <<"-","-","r","e","c","u","r","s","i","v","e">>, TRUE)

\* /\bsudo\b/i
HighSudo(s) ==
  \E i \in Positions(s) :
    Boundary(s, i) /\ Lit(s, i, <<"s","u","d","o">>, TRUE) /\ Boundary(s, i + 4)

\* /\bchmod\s+777\b/   (case-sensitive)
HighChmod777(s) ==
  \E i \in Positions(s) :
    /\ Boundary(s, i)
    /\ Lit(s, i, <<"c","h","m","o","d">>, FALSE)
    /\ \E j \in WsPlus(s, i + 5) :
         Lit(s, j, <<"7","7","7">>, FALSE) /\ Boundary(s, j + 3)

\* /\b(dd|mkfs|fdisk)\b/i
HighDisk(s) ==
  \E i \in Positions(s) :
    /\ Boundary(s, i)
    /\ \/ Lit(s, i, <<"d","d">>, TRUE) /\ Boundary(s, i + 2)
       \/ Lit(s, i, <<"m","k","f","s">>, TRUE) /\ Boundary(s, i + 4)
       \/ Lit(s, i, <<"f","d","i","s","k">>, TRUE) /\ Boundary(s, i + 5)

\* />\s*\/dev\//
HighDev(s) ==
  \E i \in Positions(s) :
    /\ Lit(s, i, <<">">>, FALSE)
    /\ \E j \in WsStar(s, i + 1) : Lit(s, j, <<"/","d","e","v","/">>, FALSE)

\* /\bkill\s+-9/
HighKill(s) ==
  \E i \in Positions(s) :
    /\ Boundary(s, i)
    /\ Lit(s, i, <<"k","i","l","l">>, FALSE)
    /\ \E j \in WsPlus(s, i + 4) : Lit(s, j, <<"-","9">>, FALSE)

\* A variant of the pattern list without the forced-push pattern.
NoForcePushPattern(s) == FALSE

\* /\bgit\s+push\s+.*--force/i
HighForcePush(s) ==
  \E i \in Positions(s) :
    /\ Boundary(s, i)
    /\ Lit(s, i, <<"g","i","t">>, TRUE)
    /\ \E j \in WsPlus(s, i + 3) :
         /\ Lit(s, j, <<"p","u","s","h">>, TRUE)
         /\ \E k \in WsPlus(s, j + 4) :
              \E m \in DotStar(s, k) :
                Lit(s, m, <<"-","-","f","o","r","c","e">>, TRUE)

\* /\bgit\s+reset\s+--hard/i
HighHardReset(s) ==
  \E i \in Positions(s) :
    /\ Boundary(s, i)
    /\ Lit(s, i, <<"g","i","t">>, TRUE)
    /\ \E j \in WsPlus(s, i + 3) :
         /\ Lit(s, j, <<"r","e","s","e","t">>, TRUE)
         /\ \E k \in WsPlus(s, j + 5) :
              Lit(s, k, <<"-","-","h","a","r","d">>, TRUE)

\* Some pattern of HIGH_RISK_PATTERNS matches the command.
HIGH_RISK_PATTERNS(s) ==
  \/ HighRm(s)
  \/ HighSudo(s)
  \/ HighChmod777(s)
  \/ HighDisk(s)
  \/ HighDev(s)
  \/ HighKill(s)
  \/ HighForcePush(s)
  \/ HighHardReset(s)

\* /\bword\b/i
WholeWord(s, w) ==
  \E i \in Positions(s) :
    Boundary(s, i) /\ Lit(s, i, w, TRUE) /\ Boundary(s, i + Len(w))

\* /\bgit\s+(push|reset|rebase)/i
MediumGit(s) ==
  \E i \in Positions(s) :
    /\ Boundary(s, i)
    /\ Lit(s, i, <<"g","i","t">>, TRUE)
    /\ \E j \in WsPlus(s, i + 3) :
         \/ Lit(s, j, <<"p","u","s","h">>, TRUE)
         \/ Lit(s, j, <<"r","e","s","e","t">>, TRUE)
         \/ Lit(s, j, <<"r","e","b","a","s","e">>, TRUE)

\* /\bnpm\s+(publish|unpublish)/i
MediumNpm(s) ==
  \E i \in Positions(s) :
    /\ Boundary(s, i)
    /\ Lit(s, i, <<"n","p","m">>, TRUE)
    /\ \E j \in WsPlus(s, i + 3) :
         \/ Lit(s, j, <<"p","u","b","l","i","s","h">>, TRUE)
         \/ Lit(s, j, <<"u","n","p","u","b","l","i","s","h">>, TRUE)

\* /\bcurl\b.*\|\s*(bash|sh)/i
MediumCurlPipe(s) ==
  \E i \in Positions(s) :
    /\ Boundary(s, i)
    /\ Lit(s, i, <<"c","u","r","l">>, TRUE)
    /\ Boundary(s, i + 4)
    /\ \E j \in DotStar(s, i + 4) :
         /\ Lit(s, j, <<"|">>, TRUE)
         /\ \E k \in WsStar(s, j + 1) :
              \/ Lit(s, k, <<"b","a","s","h">>, TRUE)
              \/ Lit(s, k, <<"s","h">>, TRUE)

\* Some pattern of MEDIUM_RISK_PATTERNS matches the command.
MEDIUM_RISK_PATTERNS(s) ==
  \/ WholeWord(s, <<"r","m">>)
  \/ WholeWord(s, <<"m","v">>)
  \/ WholeWord(s, <<"c","h","m","o","d">>)
  \/ WholeWord(s, <<"c","h","o","w","n">>)
  \/ MediumGit(s)
  \/ MediumNpm(s)
  \/ MediumCurlPipe(s)

\* ------------------------------------------------------------------------
\* Tools, tool inputs and answers the model draws from
\* ------------------------------------------------------------------------

\* lib/prompt.ts: tools that run without asking.
AUTO_APPROVED_TOOLS == {"Read", "Glob", "Grep"}

\* commands/shared.ts: tools that require explicit user approval.
APPROVAL_REQUIRED_TOOLS == {"Bash", "Write", "Edit", "MultiEdit", "NotebookEdit"}

\* Tool names in neither list.
UnknownTools == {"Task", "WebFetch"}

ToolNames == AUTO_APPROVED_TOOLS \cup APPROVAL_REQUIRED_TOOLS \cup UnknownTools

\* Shell commands a Bash request may carry.
Commands ==
  { <<"r","m"," ","-","r","f"," ","/">>,
    <<"r","m"," ","-","f","r"," ","/">>,
    <<"g","i","t"," ","p","u","s","h"," ","-","-","f","o","r","c","e">>,
    <<"g","i","t"," ","p","u","s","h">>,
    <<"l","s">>,
    <<"s","u","d","o"," ","l","s">>,
    <<"C","H","M","O","D"," ","7","7","7"," ","x">>,
    <<"e","c","h","o"," ",">","/","d","e","v","/","n","u","l","l">>,
    <<"c","u","r","l"," ","x"," ","|"," ","s","h">> }

\* A tool input is a JS object: its properties in insertion order, each a
\* pair <<key, value>> with the value a string.
BashInputs == {<< <<"command", c>> >> : c \in Commands} \cup {<< >>}

FileInput == << <<"file_path", <<"f">>>> >>

PatternInput == << <<"pattern", <<"T","O","D","O">>>> >>

RequestInputs(toolName) ==
  IF toolName = "Bash" THEN BashInputs
  ELSE IF toolName \in {"Glob", "Grep"} THEN {PatternInput}
  ELSE {FileInput}

\* input[key] ?? dflt
GetOr(input, key, dflt) ==
  IF \E i \in 1..Len(input) : input[i][1] = key
    THEN input[CHOOSE i \in 1..Len(input) : input[i][1] = key][2]
    ELSE dflt

\* What the user may type at the approval prompt.
Answers ==
  { <<"y">>,
    <<" ","Y","e","s"," ">>,
    <<"a">>,
    <<"a","l","w","a","y","s">>,
    <<"A","L","W","A","Y","S">>,
    <<>>,
    <<" ">>,
    <<"n">> }

\* ------------------------------------------------------------------------
\* assessRisk and promptToolApproval
\* ------------------------------------------------------------------------

assessRisk(toolName, input) ==
  IF toolName = "Bash" THEN
    LET cmd == GetOr(input, "command", <<>>)
    IN IF HIGH_RISK_PATTERNS(cmd)
         THEN [level |-> "high", reason |-> "Potentially destructive command"]
       ELSE IF MEDIUM_RISK_PATTERNS(cmd)
         THEN [level |-> "medium", reason |-> "May modify files or system state"]
       ELSE [level |-> "low", reason |-> "Runs a shell command"]
  ELSE IF toolName = "Write"
    THEN [level |-> "medium", reason |-> "Creates or overwrites a file"]
  ELSE IF toolName \in {"Edit", "MultiEdit"}
    THEN [level |-> "low", reason |-> "Modifies existing file content"]
  ELSE IF toolName = "NotebookEdit"
    THEN [level |-> "low", reason |-> "Modifies Jupyter notebook"]
  ELSE [level |-> "low", reason |-> ""]

\* The choices the prompt line of promptToolApproval offers.
promptChoices(level) ==
  IF level = "high" THEN {"yes", "no"} ELSE {"yes", "no", "always"}

\* A variant of the callback that does not look at the risk level.
questionCallbackAnyRisk(level, answer) ==
  LET lower == trim(toLowerCase(answer))
  IN IF lower = <<"y">> \/ lower = <<"y","e","s">>
       THEN [approved |-> TRUE, message |-> <<>>]
     ELSE IF lower = <<"a">> \/ lower = <<"a","l","w","a","y","s">>
       THEN [approved |-> TRUE, message |-> <<"always">>]
     ELSE IF lower = <<>>
       THEN [approved |-> TRUE, message |-> <<>>]
     ELSE [approved |-> FALSE, message |-> <<"User denied">>]

\* The rl.question callback of promptToolApproval: what the promise resolves
\* to for a risk level and the line the user typed.  message <<>> is
\* undefined.
questionCallback(level, answer) ==
  LET lower == trim(toLowerCase(answer))
  IN IF lower = <<"y">> \/ lower = <<"y","e","s">>
       THEN [approved |-> TRUE, message |-> <<>>]
     ELSE IF level # "high" /\ (lower = <<"a">> \/ lower = <<"a","l","w","a","y","s">>)
       THEN [approved |-> TRUE, message |-> <<"always">>]
     ELSE IF lower = <<>> /\ level = "low"
       THEN [approved |-> TRUE, message |-> <<>>]
     ELSE [approved |-> FALSE, message |-> <<"User denied">>]


\* ------------------------------------------------------------------------
\* State
\* ------------------------------------------------------------------------

VARIABLES
  options,          \* the PermissionHandlerOptions the handler was created with
  alwaysApproved,   \* the set of tools the user has said "always approve" for
  pending,          \* the request whose prompt awaits the user's answer
  decision          \* the last request the handler resolved, and how

permVars == <<options, alwaysApproved, pending, decision>>

\* ------------------------------------------------------------------------
\* createPermissionHandler
\* ------------------------------------------------------------------------

\* PermissionHandlerOptions: only mode is required.  dryRunLogger,
\* promptApproval and alwaysApproved record whether the caller supplied one.
PermissionHandlerOptions ==
  [dryRun : BOOLEAN, dryRunLogger : BOOLEAN, mode : {"prompt", "deny"},
   promptApproval : BOOLEAN, alwaysApproved : BOOLEAN]

\* The options runAgent builds for a --dry-run flag.
RunAgentOptions(dryRun) ==
  [dryRun |-> dryRun, dryRunLogger |-> TRUE, mode |-> "prompt",
   promptApproval |-> TRUE, alwaysApproved |-> TRUE]

\* The options runPipe builds.
RunPipeOptions ==
  [dryRun |-> FALSE, dryRunLogger |-> FALSE, mode |-> "deny",
   promptApproval |-> FALSE, alwaysApproved |-> FALSE]

NoRequest == [toolName |-> "", input |-> << >>, level |-> "", choices |-> {}]

NoDecision ==
  [toolName |-> "", input |-> << >>, behavior |-> "none", message |-> << >>,
   updatedInput |-> << >>, prompted |-> FALSE, level |-> "",
   answer |-> << >>, logged |-> FALSE]

\* A PermissionResult the handler returns without prompting.
Resolved(toolName, input, behavior, message, logged) ==
  [toolName |-> toolName, input |-> input, behavior |-> behavior,
   message |-> message,
   updatedInput |-> IF behavior = "allow" THEN input ELSE << >>,
   prompted |-> FALSE, level |-> "", answer |-> << >>, logged |-> logged]

\* A variant that lets unknown tools through.
allowUnknown(toolName, input) ==
  Resolved(toolName, input, "allow", << >>, FALSE)

\* Security: deny unknown tools by default.
denyUnknown(toolName, input) ==
  Resolved(toolName, input, "deny", <<"Unknown tool: ", toolName>>, FALSE)

\* The dry-run test at the head of the handler.
DryRunApplies(o) == o.dryRun /\ o.dryRunLogger

\* A variant that auto-approves nothing.
IsAutoApprovedNever(toolName) == FALSE

\* AUTO_APPROVED_TOOLS.includes(toolName)
IsAutoApproved(toolName) == toolName \in AUTO_APPROVED_TOOLS

\* A variant that never looks the tool up in the memo.
NoMemoLookup(o, memo, toolName) == FALSE

\* alwaysApproved?.has(toolName)
InMemo(o, memo, toolName) == o.alwaysApproved /\ toolName \in memo

\* A variant without the deny mode.
DeniesWritesNever(o, toolName) == FALSE

\* APPROVAL_REQUIRED_TOOLS.includes(toolName) && mode === 'deny'
DeniesWrites(o, toolName) ==
  toolName \in APPROVAL_REQUIRED_TOOLS /\ o.mode = "deny"

\* The handler, from its entry up to its return or up to the await of
\* promptApproval: the backend asks whether toolName may run on input.
CanUseTool(toolName, input) ==
  /\ pending = NoRequest
  /\ IF DryRunApplies(options) THEN
       /\ decision' = Resolved(toolName, input, "deny",
                        <<"[dry-run] Tool execution skipped">>, TRUE)
       /\ UNCHANGED pending
     ELSE IF IsAutoApproved(toolName) THEN
       /\ decision' = Resolved(toolName, input, "allow", << >>, FALSE)
       /\ UNCHANGED pending
     ELSE IF InMemo(options, alwaysApproved, toolName) THEN
       /\ decision' = Resolved(toolName, input, "allow", << >>, FALSE)
       /\ UNCHANGED pending
     ELSE IF DeniesWrites(options, toolName) THEN
       /\ decision' = Resolved(toolName, input, "deny",
                        <<"Write operations not allowed in pipe mode">>, FALSE)
       /\ UNCHANGED pending
     ELSE IF toolName \in APPROVAL_REQUIRED_TOOLS /\ options.promptApproval THEN
       LET risk == assessRisk(toolName, input)
       IN /\ pending' = [toolName |-> toolName, input |-> input,
                         level |-> risk.level,
                         choices |-> promptChoices(risk.level)]
          /\ UNCHANGED decision
     ELSE
       /\ decision' = denyUnknown(toolName, input)
       /\ UNCHANGED pending
  /\ UNCHANGED <<options, alwaysApproved>>

\* The user answers the pending prompt; promptApproval resolves and the
\* handler runs on to its return.
AnswerPrompt(answer) ==
  /\ pending # NoRequest
  /\ LET result == questionCallback(pending.level, answer)
         base == [toolName |-> pending.toolName, input |-> pending.input,
                  prompted |-> TRUE, level |-> pending.level,
                  answer |-> answer, logged |-> FALSE]
     IN IF result.approved THEN
          /\ alwaysApproved' =
               IF result.message = <<"always">> /\ options.alwaysApproved
                 THEN alwaysApproved \cup {pending.toolName}
                 ELSE alwaysApproved
          /\ decision' = base @@
               [behavior |-> "allow", message |-> << >>,
                updatedInput |-> pending.input]
        ELSE
          /\ decision' = base @@
               [behavior |-> "deny",
                message |-> IF result.message = << >>
                              THEN <<"User denied">> ELSE result.message,
                updatedInput |-> << >>]
          /\ UNCHANGED alwaysApproved
  /\ pending' = NoRequest
  /\ UNCHANGED options

\* ------------------------------------------------------------------------
\* Cancellation: query, streamQuery and the canUseTool wrapper of
\* buildSdkOptions
\* ------------------------------------------------------------------------

VARIABLES
  signal,            \* options.signal, the caller's AbortSignal
  abortController,   \* the AbortController handed to the backend
  call               \* "none"; "suspended": streamQuery was called and its
                     \* body has not started; "running": the backend runs

abortVars == <<signal, abortController, call>>

\* An AbortSignal: its aborted flag and the number of 'abort' listeners
\* that link it to the backend's controller.
AbortSignal(aborted, listeners) == [aborted |-> aborted, listeners |-> listeners]

\* new AbortController()
NewAbortController == [aborted |-> FALSE]

\* The head of query and of streamQuery's body: the controller is created,
\* the listener added to options.signal, the backend started.
LinkSignal ==
  /\ abortController' = NewAbortController
  /\ signal' = [signal EXCEPT !.listeners = @ + 1]
  /\ call' = "running"

\* query(prompt, options): an async function, its head runs in the call.
Query ==
  /\ call = "none"
  /\ LinkSignal
  /\ UNCHANGED permVars

\* streamQuery(prompt, options): an async generator, the call runs none of
\* its body.
StreamQuery ==
  /\ call = "none"
  /\ call' = "suspended"
  /\ UNCHANGED <<signal, abortController, permVars>>

\* The first next() on the generator, from the consumer's for await.
StreamQueryNext ==
  /\ call = "suspended"
  /\ LinkSignal
  /\ UNCHANGED permVars

\* The caller aborts its signal: the 'abort' event is dispatched, once, to
\* the listeners added so far.
Abort ==
  /\ ~signal.aborted
  /\ signal' = [signal EXCEPT !.aborted = TRUE]
  /\ abortController' =
       IF signal.listeners > 0 THEN [abortController EXCEPT !.aborted = TRUE]
       ELSE abortController
  /\ UNCHANGED <<call, permVars>>

\* sdkOptions.canUseTool: the backend asks, passing its signal (the signal
\* of the controller it was handed).
SdkCanUseTool(toolName, input) ==
  /\ call = "running"
  /\ pending = NoRequest
  /\ IF abortController.aborted THEN
       /\ decision' = Resolved(toolName, input, "deny",
                        <<"Operation cancelled">>, FALSE)
       /\ UNCHANGED <<options, alwaysApproved, pending>>
     ELSE CanUseTool(toolName, input)
  /\ UNCHANGED abortVars

\* ------------------------------------------------------------------------
\* The message stream of one agent turn
\* ------------------------------------------------------------------------

Alphabet == {"a", "b"}

\* The strings over Alphabet of length at most n.
RECURSIVE StringsUpTo(_)
StringsUpTo(n) ==
  IF n = 0 THEN {<< >>}
  ELSE LET shorter == StringsUpTo(n - 1)
       IN shorter \cup {Append(s, c) : s \in shorter, c \in Alphabet}

\* The cumulative text snapshots a text block may carry ('' included).
Texts == StringsUpTo(MaxLen)

TextBlock(t) == [type |-> "text", text |-> t, name |-> "", input |-> << >>]

ToolUseBlock(name, input) ==
  [type |-> "tool_use", text |-> << >>, name |-> name, input |-> input]

\* The tool_use blocks the stream may carry.
ToolUses ==
  {ToolUseBlock("Grep", PatternInput),
   ToolUseBlock("Bash", << <<"command", <<"l","s">>>> >>)}

\* The usage and cost a result message may report.
Results ==
  {[input_tokens |-> 50, output_tokens |-> 20, total_cost_usd |-> 2,
    subtype |-> "success"],
   [input_tokens |-> 0, output_tokens |-> 3, total_cost_usd |-> 0,
    subtype |-> "success"]}

\* msg.message.content of an assistant message: no block, one block, or a
\* text block and a tool_use block in either order, or two tool_use blocks.
Contents ==
  {<< >>}
    \cup {<<TextBlock(t)>> : t \in Texts}
    \cup {<<u>> : u \in ToolUses}
    \cup {<<TextBlock(t), u>> : t \in Texts, u \in ToolUses}
    \cup {<<u, TextBlock(t)>> : t \in Texts, u \in ToolUses}
    \cup {<<u, v>> : u \in ToolUses, v \in ToolUses}

\* The prompt of the turn.
Tasks == {<<"h","i">>}

\* truncation width of format.ts
TRUNCATE_LENGTH == 60

\* width of the title updateSessionStats receives: task.slice(0, 50)
TITLE_LENGTH == 50

\* s1 + s2 + ... for a sequence of strings
RECURSIVE Concat(_)
Concat(ss) == IF ss = << >> THEN << >> ELSE Head(ss) \o Concat(Tail(ss))

\* JSON.stringify of a tool input: the properties in insertion order.
JSONstringify(input) ==
  LET prop(p) == <<"\"", p[1], "\"", ":", "\"">> \o p[2] \o <<"\"">>
      sep(i) == IF i = 1 THEN << >> ELSE <<",">>
  IN <<"{">> \o Concat([i \in 1..Len(input) |-> sep(i) \o prop(input[i])])
       \o <<"}">>

\* `${toolBlock.name}:${JSON.stringify(toolBlock.input)}`
toolKey(name, input) == <<name, ":">> \o JSONstringify(input)

\* formatToolCall: the tool's name and a one-line summary of its input
\* (icon and colours left out).
formatToolCall(toolName, input) ==
  LET path == GetOr(input, "path", << >>)
      inPath == IF path # << >> THEN <<" in ">> \o path ELSE << >>
      summary ==
        IF toolName \in {"Read", "Write", "Edit", "MultiEdit"}
          THEN GetOr(input, "file_path", <<"undefined">>)
        ELSE IF toolName = "Glob"
          THEN GetOr(input, "pattern", <<"undefined">>) \o inPath
        ELSE IF toolName = "Grep"
          THEN <<"\"">> \o GetOr(input, "pattern", <<"undefined">>)
                 \o <<"\"">> \o inPath
        ELSE IF toolName = "Bash"
          THEN LET cmd == GetOr(input, "command", << >>)
               IN sliceTo(cmd, TRUNCATE_LENGTH)
                    \o (IF Len(cmd) > TRUNCATE_LENGTH THEN <<"...">> ELSE << >>)
        ELSE sliceTo(JSONstringify(input), TRUNCATE_LENGTH)
  IN <<"  ", toolName, " ">> \o summary

\* ------------------------------------------------------------------------
\* State of a turn
\* ------------------------------------------------------------------------

VARIABLES
  args,        \* CliArgs: quiet, verbose; resume: the turn resumes a session
  task,        \* the prompt of the turn
  phase,       \* where runAgent is: "idle", "streaming", "done", "ended"
  state,       \* StreamState
  stdout,      \* what was written to the terminal, in order
  session,     \* the session record of the turn in the store
  pulled,      \* number of assistant messages taken from the stream so far
  result,      \* the result message of the turn, once it has arrived
  prefixOk,    \* every text snapshot so far extends the one before it
  repeated,    \* keys of the tool_use blocks that came again in a later message
  stderr,      \* what was written to the diagnostic stream, in order
  exitCode     \* {} while the process runs, {n} once process.exit(n) was called

\* The variables of a turn other than the session record.
runVars ==
  <<args, task, phase, state, stdout, pulled, result, prefixOk, repeated,
    stderr, exitCode>>

turnVars ==
  <<args, task, phase, state, stdout, session, pulled, result, prefixOk, repeated,
    stderr, exitCode>>

VARIABLES
  stamps,      \* the timestamp column of the session's message rows, in rowid order
  returned,    \* what the last call on the store returned
  calls        \* the writing calls made on the store, in order

storeVars == <<stamps, returned, calls>>

VARIABLES
  sessions,    \* the rows of table sessions, by id
  messages,    \* the rows of table messages, in rowid order
  foreignKeys, \* the connection enforces foreign keys (PRAGMA foreign_keys)
  nextId       \* the number of ids generateId has given out, plus one

dbVars == <<sessions, messages, foreignKeys, nextId>>

VARIABLES
  opts,        \* the options runAgent passed to streamQuery
  inits        \* the session_ids of the init messages the stream delivered

resumeVars == <<opts, inits>>

VARIABLES
  highlighter,  \* module variable highlighter: 0 (null) or the instance
  shikiLoading, \* module variable shikiLoading: 0 (null) or the load it holds
  loads,        \* the loads started (the async function of getHighlighter)
  created,      \* the number of calls of createHighlighter so far
  callers       \* the calls of renderCodeBlock

hlVars == <<highlighter, shikiLoading, loads, created, callers>>

VARIABLES
  ignoredAt,   \* the values of pulled at which the turn got a message it ignores
  pipe,        \* runPipe: where it is, and its responseText and success
  qry          \* runQuery: where it is

modeVars == <<pipe, qry>>

VARIABLES
  md,          \* a call of render or renderSync: its input, tokens and outputs
  app,         \* the state of the App component, as last committed
  inflight,    \* the turns of App whose stream is open
  log          \* every entry setMessages appended, in order

uiVars == <<md, app, inflight, log>>

\* The variables of the parts that neither a turn nor the store touches.
laterVars == <<hlVars, ignoredAt, modeVars, uiVars>>

\* The variables that only the specifications of the database, and the
\* ones after it, change.
extraVars == <<dbVars, resumeVars, laterVars>>

\* The variables the calls on the database leave alone.
notDbVars ==
  <<options, alwaysApproved, pending, decision, signal, abortController, call,
    args, task, phase, state, stdout, session, pulled, result, prefixOk,
    repeated, stderr, exitCode, resumeVars, laterVars>>

vars == <<options, alwaysApproved, pending, decision,
          signal, abortController, call,
          args, task, phase, state, stdout, session, pulled, result, prefixOk,
          repeated, stderr, exitCode, stamps, returned, calls,
          sessions, messages, foreignKeys, nextId, opts, inits,
          highlighter, shikiLoading, loads, created, callers,
          ignoredAt, pipe, qry, md, app, inflight, log>>

\* An entry of stdout.  kind: "blank" console.log(); "header"; "separator";
\* "write" process.stdout.write(text); "tool" console.log(formatToolCall)
\* for the tool_use block with key; "markdown" console.log of
\* renderMarkdown(text); "stats"; "session".  msg: the assistant message
\* whose handling wrote the entry (0 before the stream, the number of
\* assistant messages plus one for the result message).
Out(kind, text, key, msg) == [kind |-> kind, text |-> text, key |-> key, msg |-> msg]

NoResult == [input_tokens |-> 0, output_tokens |-> 0, total_cost_usd |-> 0,
             subtype |-> "none"]

\* The last call on the store returned nothing that is looked at.
NoReturn ==
  [kind |-> "none", messages |-> << >>, totalTokens |-> 0, totalCost |-> 0]

InitialStreamState ==
  [fullText |-> << >>, lastShownText |-> << >>, toolCount |-> 0,
   hasShownTools |-> FALSE, seenTools |-> {}]

Message(role, content, tokens) ==
  [role |-> role, content |-> content, tokens |-> tokens]

\* tokens of a message: {} when stored without a token count (NULL), else {n}
NoTokens == {}

\* createSession: a fresh row, no message, no title, no backend handle.
createSession ==
  [messages |-> << >>, totalTokens |-> 0, totalCost |-> 0,
   title |-> << >>, sdkSessionId |-> ""]

\* A session stored by an earlier turn, as a resumed turn finds it.
EarlierSession ==
  [messages |-> <<Message("user", <<"o","l","d">>, NoTokens),
                  Message("assistant", <<"a">>, {1})>>,
   totalTokens |-> 1, totalCost |-> 1,
   title |-> <<"o","l","d">>, sdkSessionId |-> "sdk-0"]

\* A variant that adds the message's tokens to the session's total.
addMessageCountingTokens(s, role, content, tokens) ==
  [s EXCEPT !.messages = Append(@, Message(role, content, tokens)),
            !.totalTokens = IF tokens = {} THEN @
                            ELSE @ + (CHOOSE n \in tokens : TRUE)]

\* addMessage: INSERT INTO messages; the row goes after the existing ones.
addMessage(s, role, content, tokens) ==
  [s EXCEPT !.messages = Append(@, Message(role, content, tokens))]

\* A variant that sets the title whenever one is passed.
updateSessionStatsSettingTitle(s, tokens, cost, title) ==
  [s EXCEPT !.totalTokens = @ + tokens,
            !.totalCost = @ + cost,
            !.title = IF title # << >> THEN title ELSE @]

\* updateSessionStats: totals are added to; title = COALESCE(title, ?) when a
\* non-empty title is passed.
updateSessionStats(s, tokens, cost, title) ==
  [s EXCEPT !.totalTokens = @ + tokens,
            !.totalCost = @ + cost,
            !.title = IF title # << >> /\ @ = << >> THEN title ELSE @]

\* updateSdkSessionId
updateSdkSessionId(s, sdkSessionId) == [s EXCEPT !.sdkSessionId = sdkSessionId]

\* ------------------------------------------------------------------------
\* processAssistantMessage
\* ------------------------------------------------------------------------

\* A variant that writes the whole snapshot instead of the new suffix.
newTextWhole(fullText, lastShownText) == fullText

\* state.fullText.slice(state.lastShownText.length)
newTextOf(fullText, lastShownText) == slice(fullText, Len(lastShownText))

\* A variant that keeps streaming after tool lines were printed.
showsLiveAfterTools(s) == s.fullText # s.lastShownText

\* The test that lets a text snapshot be shown live.
showsLive(s) == ~s.hasShownTools /\ s.fullText # s.lastShownText

\* A variant without the dedup test.
isNewToolAlways(seenTools, key) == TRUE

\* !state.seenTools.has(toolKey)
isNewTool(seenTools, key) == key \notin seenTools

\* First pass over msg.message.content, from block i on.  acc carries the
\* StreamState s, the terminal output out, the number n of the message and
\* the prefix observation ok.
RECURSIVE textPass(_, _, _, _)
textPass(content, i, acc, quiet) ==
  IF i > Len(content) THEN acc
  ELSE
    LET block == content[i]
    IN IF block.type = "text" /\ block.text # << >> THEN
         LET s1 == [acc.s EXCEPT !.fullText = block.text]
             ok1 == acc.ok /\ IsPrefix(acc.s.fullText, block.text)
         IN IF showsLive(s1) THEN
              LET newText == newTextOf(s1.fullText, s1.lastShownText)
              IN textPass(content, i + 1,
                   [acc EXCEPT
                      !.s = [s1 EXCEPT !.lastShownText = s1.fullText],
                      !.out = IF newText # << >> /\ ~quiet
                                THEN Append(@, Out("write", newText, << >>, acc.n))
                                ELSE @,
                      !.ok = ok1],
                   quiet)
            ELSE textPass(content, i + 1,
                   [acc EXCEPT !.s = s1, !.ok = ok1], quiet)
       ELSE textPass(content, i + 1, acc, quiet)

\* Second pass over msg.message.content, from block i on.
RECURSIVE toolPass(_, _, _, _)
toolPass(content, i, acc, quiet) ==
  IF i > Len(content) THEN acc
  ELSE
    LET block == content[i]
        key == toolKey(block.name, block.input)
    IN IF block.type = "tool_use" /\ isNewTool(acc.s.seenTools, key) THEN
         LET newline == IF ~acc.s.hasShownTools /\ acc.s.lastShownText # << >>
                           /\ ~quiet
                          THEN <<Out("blank", << >>, << >>, acc.n)>> ELSE << >>
             line == IF ~quiet
                       THEN <<Out("tool",
                                  formatToolCall(block.name, block.input),
                                  key, acc.n)>>
                       ELSE << >>
         IN toolPass(content, i + 1,
              [acc EXCEPT
                 !.s = [acc.s EXCEPT !.seenTools = @ \cup {key},
                                     !.hasShownTools = TRUE,
                                     !.toolCount = @ + 1],
                 !.out = @ \o newline \o line],
              quiet)
       ELSE toolPass(content, i + 1, acc, quiet)

\* A variant with the two passes in the other order.
processToolsFirst(content, acc, quiet) ==
  textPass(content, 1, toolPass(content, 1, acc, quiet), quiet)

\* The text blocks first, then the tool_use blocks.
processAssistantMessage(content, acc, quiet) ==
  toolPass(content, 1, textPass(content, 1, acc, quiet), quiet)

\* ------------------------------------------------------------------------
\* runAgent
\* ------------------------------------------------------------------------

\* runAgent up to the first await of the stream: the session is created
\* (unless resuming), the user message saved, the header printed.
RunAgent ==
  /\ phase = "idle"
  /\ exitCode = {}
  /\ session' = addMessage(session, "user", task, NoTokens)
  /\ stdout' = IF args.quiet THEN stdout
               ELSE stdout \o <<Out("blank", << >>, << >>, 0),
                                Out("header", << >>, << >>, 0),
                                Out("separator", << >>, << >>, 0)>>
  /\ state' = InitialStreamState
  /\ phase' = "streaming"
  /\ UNCHANGED <<args, task, pulled, result, prefixOk, repeated, stderr,
                 exitCode, permVars>>

\* The options of a query that was not started.
NoOptions == [resume |-> {}, canUseTool |-> FALSE]

\* A variant that never asks the backend to resume.
queryExtrasFresh(resuming) == [resume |-> {}, canUseTool |-> TRUE]

\* queryExtras: the options runAgent adds; resume is set to the handle of
\* resumeSession (the stored session's, see main) when there is one.
queryExtras(resuming) ==
  [resume |-> IF resuming /\ EarlierSession.sdkSessionId # ""
                THEN {EarlierSession.sdkSessionId} ELSE {},
   canUseTool |-> TRUE]

\* A variant that stores the handle of an init message in a resumed
\* session too.
storesAnyHandle(subtype, session_id, resuming) ==
  subtype = "init" /\ session_id # ""

\* sysMsg.subtype === 'init' && sysMsg.session_id && !resumeSession
storesHandle(subtype, session_id, resuming) ==
  subtype = "init" /\ session_id # "" /\ ~resuming

\* The stream delivers a system message; an init message's session_id is
\* stored for a new session.
SystemMessage(subtype, session_id) ==
  /\ phase = "streaming"
  /\ session' = IF storesHandle(subtype, session_id, args.resume)
                  THEN updateSdkSessionId(session, session_id)
                  ELSE session
  /\ UNCHANGED <<args, task, phase, state, stdout, pulled, result, prefixOk,
                 repeated, stderr, exitCode, permVars>>

\* The keys of the tool_use blocks of a message content.
toolKeysOf(content) ==
  {toolKey(content[i].name, content[i].input) :
     i \in {j \in 1..Len(content) : content[j].type = "tool_use"}}

\* The stream delivers an assistant message.
AssistantMessage(content) ==
  /\ phase = "streaming"
  /\ pulled < MaxMsgs
  /\ pulled' = pulled + 1
  /\ LET acc == processAssistantMessage(content,
                  [s |-> state, out |-> stdout, n |-> pulled + 1,
                   ok |-> prefixOk],
                  args.quiet)
     IN /\ state' = acc.s
        /\ stdout' = acc.out
        /\ prefixOk' = acc.ok
  /\ repeated' = repeated \cup (toolKeysOf(content) \cap state.seenTools)
  /\ UNCHANGED <<args, task, phase, session, result, stderr, exitCode,
                 permVars>>

\* The rendering part of handleResultMessage, as message number n.
resultOutput(s, quiet, n) ==
  IF s.fullText # << >> /\ ~quiet THEN
    <<Out("blank", << >>, << >>, n)>>
      \o (IF s.hasShownTools THEN <<Out("markdown", s.fullText, << >>, n)>>
          ELSE IF s.lastShownText = << >>
            THEN <<Out("markdown", s.fullText, << >>, n)>>
          ELSE << >>)
  ELSE << >>

\* The statistics handleResultMessage prints with --verbose.
statsOutput(verbose, n) ==
  IF verbose
    THEN <<Out("blank", << >>, << >>, n), Out("separator", << >>, << >>, n),
           Out("stats", << >>, << >>, n), Out("session", << >>, << >>, n)>>
    ELSE << >>

\* A variant that counts the output tokens only.
outputTokensOf(r) == r.output_tokens

\* result.usage.input_tokens + result.usage.output_tokens
totalTokensOf(r) == r.input_tokens + r.output_tokens

\* The stream delivers its result message, which ends it:
\* handleResultMessage.
ResultMessage(r) ==
  /\ phase = "streaming"
  /\ result' = r
  /\ LET totalTokens == totalTokensOf(r)
     IN session' = updateSessionStats(
                     addMessage(session, "assistant", state.fullText,
                                {totalTokens}),
                     totalTokens, r.total_cost_usd,
                     sliceTo(task, TITLE_LENGTH))
  /\ stdout' = stdout \o resultOutput(state, args.quiet, pulled + 1)
                 \o statsOutput(args.verbose, pulled + 1)
  /\ phase' = "done"
  /\ UNCHANGED <<args, task, state, pulled, prefixOk, repeated, stderr,
                 exitCode, permVars>>

\* The stream ends without a result message.
StreamEnd ==
  /\ phase = "streaming"
  /\ phase' = "ended"
  /\ UNCHANGED <<args, task, state, stdout, session, pulled, result, prefixOk,
                 repeated, stderr, exitCode, permVars>>

\* ------------------------------------------------------------------------
\* Failures: the stream throws, a write to the store throws
\* ------------------------------------------------------------------------

\* An entry of stderr: console.error(semantic.error(prefix + message)) for
\* the error thrown by thrownBy ("streamQuery", "addMessage",
\* "updateSessionStats").
Diag(prefix, thrownBy) == [prefix |-> prefix, thrownBy |-> thrownBy]

\* A variant of the catch block that reports nothing and goes on.
catchAndGoOn(thrownBy) == [err |-> << >>, exitCode |-> {}]

\* The catch block of runAgent: the error is printed and the process exits
\* with status 1.
catchBlock(thrownBy) ==
  [err |-> <<Diag("Error: ", thrownBy)>>, exitCode |-> {1}]

\* main().catch: what a rejection of runAgent runs into.
mainCatch(thrownBy) ==
  [err |-> <<Diag("Fatal error: ", thrownBy)>>, exitCode |-> {1}]

\* The writes to the store handleResultMessage makes.
ResultWrites == {"addMessage", "updateSessionStats"}

\* Pulling the next message from the stream throws.
StreamThrows ==
  /\ phase = "streaming"
  /\ LET c == catchBlock("streamQuery")
     IN /\ stderr' = stderr \o c.err
        /\ exitCode' = c.exitCode
  /\ phase' = "failed"
  /\ UNCHANGED <<args, task, state, stdout, session, pulled, result, prefixOk,
                 repeated, permVars>>

\* runAgent when its first write, addMessage of the user message, throws:
\* the exception leaves runAgent, which has no handler around it.
RunAgentStoreFails ==
  /\ phase = "idle"
  /\ exitCode = {}
  /\ LET c == mainCatch("addMessage")
     IN /\ stderr' = stderr \o c.err
        /\ exitCode' = c.exitCode
  /\ UNCHANGED <<args, task, phase, state, stdout, session, pulled, result,
                 prefixOk, repeated, permVars>>

\* handleResultMessage when the write named by failing throws: the response
\* has been rendered, the writes before the failing one are done, the
\* statistics are not printed, and the catch block of runAgent runs.
ResultMessageStoreFails(r, failing) ==
  /\ phase = "streaming"
  /\ result' = r
  /\ stdout' = stdout \o resultOutput(state, args.quiet, pulled + 1)
  /\ session' = IF failing = "addMessage" THEN session
                ELSE addMessage(session, "assistant", state.fullText,
                                {totalTokensOf(r)})
  /\ LET c == catchBlock(failing)
     IN /\ stderr' = stderr \o c.err
        /\ exitCode' = c.exitCode
  /\ phase' = "failed"
  /\ UNCHANGED <<args, task, state, pulled, prefixOk, repeated, permVars>>

\* ------------------------------------------------------------------------
\* The session store, called directly
\* ------------------------------------------------------------------------

\* The readings of Date.now(), in milliseconds: a wall clock, whose
\* reading may repeat, advance, or step back between two calls.
Times == {1, 2}

\* The messages addMessage is called with.
StoreMessages ==
  {Message("user", <<"q">>, NoTokens), Message("assistant", <<"r">>, {5})}

\* The tokens, cost and title updateSessionStats is called with; title
\* << >> is no title (undefined or '').  Cost is in whole units.
StatsInputs ==
  [tokens : {3, 70}, cost : {2}, title : {<< >>, <<"h","i">>, <<"y","o">>}]
    \cup [tokens : {0}, cost : {0}, title : {<< >>, <<"h","i">>, <<"y","o">>}]

\* An entry of calls.
Call(op, message, tokens, cost, title) ==
  [op |-> op, message |-> message, tokens |-> tokens, cost |-> cost,
   title |-> title]

\* addMessage(sessionId, role, content, tokens), Date.now() reading now.
AddMessage(m, now) ==
  /\ Len(calls) < MaxOps
  /\ session' = addMessage(session, m.role, m.content, m.tokens)
  /\ stamps' = Append(stamps, now)
  /\ returned' = [kind |-> "message", messages |-> <<m>>,
                  totalTokens |-> 0, totalCost |-> 0]
  /\ calls' = Append(calls, Call("addMessage", m, 0, 0, << >>))

\* updateSessionStats(sessionId, tokens, cost, title)
UpdateSessionStats(u) ==
  /\ Len(calls) < MaxOps
  /\ session' = updateSessionStats(session, u.tokens, u.cost, u.title)
  /\ returned' = [NoReturn EXCEPT !.kind = "void"]
  /\ calls' = Append(calls, Call("updateSessionStats",
                                 Message("", << >>, NoTokens),
                                 u.tokens, u.cost, u.title))
  /\ UNCHANGED stamps

\* The orders in which SELECT ... ORDER BY timestamp ASC may return the
\* message rows: rows come by ascending timestamp; SQL leaves the order
\* of rows with equal timestamps open.
OrderByTimestamp ==
  {p \in [1..Len(stamps) -> 1..Len(stamps)] :
     /\ \A i \in 1..Len(stamps) : \A j \in 1..Len(stamps) :
          i # j => p[i] # p[j]
     /\ \A i \in 1..Len(stamps) : \A j \in 1..Len(stamps) :
          i < j => stamps[p[i]] <= stamps[p[j]]}

\* getSession(id): the session row and its messages, in the order p.
GetSession(p) ==
  /\ returned' = [kind |-> "session",
                  messages |-> [i \in 1..Len(stamps) |-> session.messages[p[i]]],
                  totalTokens |-> session.totalTokens,
                  totalCost |-> session.totalCost]
  /\ UNCHANGED <<session, stamps, calls>>

\* ------------------------------------------------------------------------
\* The database: tables sessions and messages, several sessions
\* ------------------------------------------------------------------------

\* A row of table sessions (the columns the calls below read or write).
SessionRow(updated_at, total_tokens, total_cost) ==
  [updated_at |-> updated_at, total_tokens |-> total_tokens,
   total_cost |-> total_cost, sdk_session_id |-> ""]

\* The row of the session an earlier run stored (EarlierSession), under id 0.
EarlierRow ==
  [SessionRow(1, EarlierSession.totalTokens, EarlierSession.totalCost)
     EXCEPT !.sdk_session_id = EarlierSession.sdkSessionId]

\* A row of table messages.
MessageRow(session_id, role, timestamp) ==
  [session_id |-> session_id, role |-> role, timestamp |-> timestamp]

\* The ids a caller may pass: the ids given out so far, and one that no
\* session ever had.
NoSuchId == 99
KnownIds == 0..(nextId - 1)

\* What a call on the database returned.  found: a row was there (the call
\* returned a session, or true); messages: the message rows of a session;
\* rows: the entries of a listing.
Reply(op, id, found, msgs, rows) ==
  [kind |-> op, id |-> id, found |-> found, messages |-> msgs, rows |-> rows]

\* An entry of calls for a writing call on the database.
DbCall(op, id, now) == [op |-> op, id |-> id, now |-> now]

\* The message rows of a session, in rowid order.
RowsOf(msgs, id) == SelectSeq(msgs, LAMBDA r : r.session_id = id)

\* The orders ORDER BY timestamp ASC may return rows in (equal timestamps
\* in any order).
RECURSIVE OrdersByTimestamp(_, _)
OrdersByTimestamp(rows, S) ==
  IF S = {} THEN {<< >>}
  ELSE UNION {{<<rows[i]>> \o o : o \in OrdersByTimestamp(rows, S \ {i})} :
                i \in {k \in S : \A j \in S :
                                    rows[k].timestamp <= rows[j].timestamp}}

ByTimestampAsc(rows) == OrdersByTimestamp(rows, DOMAIN rows)

\* A variant that orders the sessions by ascending update time.
updatedAtAsc(a, b) == a <= b

\* ORDER BY updated_at DESC: a row with update time a may come before one
\* with update time b.
updatedAtDesc(a, b) == a >= b

\* The first n entries of a sequence (all of it when it has fewer).
Limit(q, n) == [i \in 1..(IF n < Len(q) THEN n ELSE Len(q)) |-> q[i]]

\* The session ids ORDER BY updated_at DESC LIMIT limit may return, in
\* order: the first entries of an order of all the ids, equal update times
\* in any order.
ByUpdatedAtDesc(limit) ==
  LET ids == DOMAIN sessions
      k == IF limit < Cardinality(ids) THEN limit ELSE Cardinality(ids)
  IN {q \in [1..k -> ids] :
        /\ \A i, j \in 1..k : i # j => q[i] # q[j]
        /\ \A i, j \in 1..k :
             i < j => updatedAtDesc(sessions[q[i]].updated_at,
                                    sessions[q[j]].updated_at)
        /\ \A i \in 1..k : \A j \in ids \ {q[n] : n \in 1..k} :
             updatedAtDesc(sessions[q[i]].updated_at, sessions[j].updated_at)}

\* The two tables together.
Tables == [sessions |-> sessions, messages |-> messages]

\* The earlier run's rows of table messages.
EarlierRows == <<MessageRow(0, "user", 1), MessageRow(0, "assistant", 1)>>

\* The tables as an earlier run left them with its session in them.
EarlierTables == [sessions |-> (0 :> EarlierRow), messages |-> EarlierRows]

\* createSession's INSERT INTO sessions.
insertSession(t, id, now) ==
  [t EXCEPT !.sessions = (id :> SessionRow(now, 0, 0)) @@ @]

\* addMessage's INSERT INTO messages and UPDATE sessions SET updated_at.
insertMessage(t, id, role, now) ==
  [t EXCEPT !.messages = Append(@, MessageRow(id, role, now)),
            !.sessions = [j \in DOMAIN @ |->
                            IF j = id THEN [@[j] EXCEPT !.updated_at = now]
                            ELSE @[j]]]

\* updateSessionStats's UPDATE sessions.
addStats(t, id, tokens, cost, now) ==
  [t EXCEPT !.sessions =
     [j \in DOMAIN @ |->
        IF j = id THEN [@[j] EXCEPT !.total_tokens = @ + tokens,
                                    !.total_cost = @ + cost,
                                    !.updated_at = now]
        ELSE @[j]]]

\* updateSdkSessionId's UPDATE sessions SET sdk_session_id.
setSdkSessionId(t, id, sdkSessionId) ==
  [t EXCEPT !.sessions =
     [j \in DOMAIN @ |->
        IF j = id THEN [@[j] EXCEPT !.sdk_session_id = sdkSessionId]
        ELSE @[j]]]

\* createSession(model, cwd), Date.now() reading now: a row under a new id.
DbCreateSession(now) ==
  /\ Len(calls) < MaxOps
  /\ sessions' = insertSession(Tables, nextId, now).sessions
  /\ nextId' = nextId + 1
  /\ returned' = Reply("createSession", nextId, TRUE, << >>, << >>)
  /\ calls' = Append(calls, DbCall("createSession", nextId, now))
  /\ UNCHANGED <<messages, foreignKeys, stamps>>

\* addMessage(sessionId, role, content), Date.now() reading now: INSERT
\* INTO messages, then UPDATE sessions SET updated_at.
DbAddMessage(id, role, now) ==
  /\ Len(calls) < MaxOps
  /\ id \in DOMAIN sessions
  /\ messages' = insertMessage(Tables, id, role, now).messages
  /\ sessions' = insertMessage(Tables, id, role, now).sessions
  /\ returned' = Reply("addMessage", id, TRUE, << >>, << >>)
  /\ calls' = Append(calls, DbCall("addMessage", id, now))
  /\ UNCHANGED <<foreignKeys, nextId, stamps>>

\* updateSessionStats(sessionId, tokens, cost), Date.now() reading now.
DbUpdateSessionStats(id, tokens, cost, now) ==
  /\ Len(calls) < MaxOps
  /\ id \in DOMAIN sessions
  /\ sessions' = addStats(Tables, id, tokens, cost, now).sessions
  /\ returned' = Reply("updateSessionStats", id, TRUE, << >>, << >>)
  /\ calls' = Append(calls, DbCall("updateSessionStats", id, now))
  /\ UNCHANGED <<messages, foreignKeys, nextId, stamps>>

\* The value of getSession(id): null when no row has the id, else the
\* session with its messages ordered by timestamp.
getSessionReplies(op, id) ==
  IF id \notin DOMAIN sessions
  THEN {Reply(op, id, FALSE, << >>, << >>)}
  ELSE {Reply(op, id, TRUE, m, << >>) : m \in ByTimestampAsc(RowsOf(messages, id))}

\* getSession(id)
DbGetSession(id) ==
  /\ returned' \in getSessionReplies("getSession", id)
  /\ UNCHANGED <<dbVars, calls, stamps>>

\* getLastSession(): SELECT id ... ORDER BY updated_at DESC LIMIT 1, then
\* getSession of that id; null when the table is empty.
DbGetLastSession ==
  /\ IF sessions = << >>
     THEN returned' = Reply("getLastSession", NoSuchId, FALSE, << >>, << >>)
     ELSE \E q \in ByUpdatedAtDesc(1) :
            returned' \in getSessionReplies("getLastSession", q[1])
  /\ UNCHANGED <<dbVars, calls, stamps>>

\* An entry of a listing: COUNT(m.id) over the LEFT JOIN with messages.
SessionListItem(id) ==
  [id |-> id, updatedAt |-> sessions[id].updated_at,
   totalCost |-> sessions[id].total_cost,
   messageCount |-> Len(RowsOf(messages, id))]

\* listSessions(limit)
DbListSessions(limit) ==
  /\ \E q \in ByUpdatedAtDesc(limit) :
       returned' = Reply("listSessions", limit, TRUE, << >>,
                         [i \in DOMAIN Limit(q, limit) |-> SessionListItem(q[i])])
  /\ UNCHANGED <<dbVars, calls, stamps>>

\* A variant that reports success whether or not a row was deleted.
deletedAlways(changes) == changes >= 0

\* result.changes > 0
deleted(changes) == changes > 0

\* deleteSession(id): DELETE FROM sessions WHERE id = ?.  The rows of
\* messages that refer to the session go with it (ON DELETE CASCADE) when
\* the connection enforces foreign keys, and stay when it does not;
\* changes counts the rows of sessions only.
DbDeleteSession(id) ==
  /\ Len(calls) < MaxOps
  /\ sessions' = [j \in DOMAIN sessions \ {id} |-> sessions[j]]
  /\ messages' = IF foreignKeys
                 THEN SelectSeq(messages, LAMBDA r : r.session_id # id)
                 ELSE messages
  /\ returned' = Reply("deleteSession", id,
                       deleted(IF id \in DOMAIN sessions THEN 1 ELSE 0),
                       << >>, << >>)
  /\ calls' = Append(calls, DbCall("deleteSession", id, 0))
  /\ UNCHANGED <<foreignKeys, nextId, stamps>>

\* ------------------------------------------------------------------------
\* A turn and the rows it writes
\* ------------------------------------------------------------------------

\* session.id: the id of resumeSession, or the id createSession gave.
sessionId == IF args.resume THEN 0 ELSE 1

\* runAgent, not resuming: createSession, Date.now() reading now.
StoredCreateSession(now) ==
  /\ phase = "idle"
  /\ exitCode = {}
  /\ ~args.resume
  /\ nextId = 1
  /\ sessions' = insertSession(Tables, nextId, now).sessions
  /\ nextId' = nextId + 1
  /\ UNCHANGED <<messages, foreignKeys, turnVars, permVars, resumeVars>>

\* runAgent from addMessage(session.id, 'user', task) to the first await of
\* the stream.
StoredRunAgent(now) ==
  /\ args.resume \/ nextId = 2
  /\ RunAgent
  /\ sessions' = insertMessage(Tables, sessionId, "user", now).sessions
  /\ messages' = insertMessage(Tables, sessionId, "user", now).messages
  /\ opts' = queryExtras(args.resume)
  /\ UNCHANGED <<foreignKeys, nextId, inits>>

\* A system message: updateSdkSessionId(session.id, sysMsg.session_id) for
\* the init message of a new session.
StoredSystemMessage(subtype, session_id) ==
  /\ SystemMessage(subtype, session_id)
  /\ sessions' = IF storesHandle(subtype, session_id, args.resume)
                   THEN setSdkSessionId(Tables, sessionId, session_id).sessions
                   ELSE sessions
  /\ inits' = IF subtype = "init" THEN inits \cup {session_id} ELSE inits
  /\ UNCHANGED <<messages, foreignKeys, nextId, opts>>

\* An assistant message writes no row.
StoredAssistantMessage(content) ==
  /\ AssistantMessage(content)
  /\ UNCHANGED <<dbVars, resumeVars>>

\* The result message: handleResultMessage's addMessage and
\* updateSessionStats, Date.now() reading now and then later.
StoredResultMessage(r, now, later) ==
  /\ ResultMessage(r)
  /\ LET t == addStats(insertMessage(Tables, sessionId, "assistant", now),
                       sessionId, totalTokensOf(r), r.total_cost_usd, later)
     IN /\ sessions' = t.sessions
        /\ messages' = t.messages
  /\ UNCHANGED <<foreignKeys, nextId, resumeVars>>

\* The stream ends without a result message.
StoredStreamEnd ==
  /\ StreamEnd
  /\ UNCHANGED <<dbVars, resumeVars>>

\* ------------------------------------------------------------------------
\* The highlighter of the markdown renderer
\* ------------------------------------------------------------------------

\* The most calls of renderCodeBlock under way in a run.
MaxCalls == 3

Callers == 1..MaxCalls

\* A call of renderCodeBlock.  pc: "idle" not made yet, "awaiting" at
\* `await getHighlighter()`, "done" hl.codeToHtml was called, "failed" the
\* await threw; awaits: the load whose promise the call awaits, 0 for a
\* promise resolved at once; hl: the instance the call got, 0 for none.
Caller(pc, awaits, hl) == [pc |-> pc, awaits |-> awaits, hl |-> hl]

NoCall == Caller("idle", 0, 0)

\* A load.  pc: "importing" at `await import('shiki')`, "creating" at
\* `await createHighlighter(...)`, "done", "rejected"; value: the instance
\* createHighlighter makes for it, 0 before it is called.
Load(pc, value) == [pc |-> pc, value |-> value]

\* A variant that never finds a load under way.
loadNeverUnderWay(loading) == FALSE

\* if (shikiLoading)
loadUnderWay(loading) == loading # 0

\* renderCodeBlock of a supported language, up to its await: the
\* synchronous part of getHighlighter.
RenderCodeBlock(c) ==
  /\ callers[c].pc = "idle"
  /\ IF highlighter # 0
       THEN /\ callers' = [callers EXCEPT ![c] = Caller("awaiting", 0, highlighter)]
            /\ UNCHANGED <<shikiLoading, loads>>
     ELSE IF loadUnderWay(shikiLoading)
       THEN /\ callers' = [callers EXCEPT ![c] = Caller("awaiting", shikiLoading, 0)]
            /\ UNCHANGED <<shikiLoading, loads>>
     ELSE /\ loads' = Append(loads, Load("importing", 0))
          /\ shikiLoading' = Len(loads) + 1
          /\ callers' = [callers EXCEPT ![c] = Caller("awaiting", Len(loads) + 1, 0)]
  /\ UNCHANGED <<highlighter, created>>

\* import('shiki') resolves; createHighlighter is called.
ImportResolves(i) ==
  /\ loads[i].pc = "importing"
  /\ created' = created + 1
  /\ loads' = [loads EXCEPT ![i] = Load("creating", created + 1)]
  /\ UNCHANGED <<highlighter, shikiLoading, callers>>

\* createHighlighter resolves: highlighter = the instance, and the load's
\* promise resolves with it.
CreateResolves(i) ==
  /\ loads[i].pc = "creating"
  /\ highlighter' = loads[i].value
  /\ loads' = [loads EXCEPT ![i].pc = "done"]
  /\ UNCHANGED <<shikiLoading, created, callers>>

\* The import or createHighlighter rejects, and with it the load's promise.
LoadRejects(i) ==
  /\ loads[i].pc \in {"importing", "creating"}
  /\ loads' = [loads EXCEPT ![i].pc = "rejected"]
  /\ UNCHANGED <<highlighter, shikiLoading, created, callers>>

\* The await of a call returns, or throws.
Resume(c) ==
  /\ callers[c].pc = "awaiting"
  /\ IF callers[c].awaits = 0
       THEN callers' = [callers EXCEPT ![c].pc = "done"]
     ELSE /\ loads[callers[c].awaits].pc \in {"done", "rejected"}
          /\ callers' =
               [callers EXCEPT ![c] =
                  IF loads[@.awaits].pc = "done"
                    THEN Caller("done", @.awaits, loads[@.awaits].value)
                    ELSE Caller("failed", @.awaits, 0)]
  /\ UNCHANGED <<highlighter, shikiLoading, loads, created>>

\* ------------------------------------------------------------------------
\* Messages runAgent has no branch for
\* ------------------------------------------------------------------------

\* runPipe before it is called.  pc: "idle", "streaming" in the for await
\* loop, "resulted" the result message was handled, "exited"; json:
\* args.json; got: what the run came to, "none" at first, then the subtype
\* of the result message received, or "thrown" for an exception.
NoPipe ==
  [pc |-> "idle", json |-> FALSE, responseText |-> << >>, success |-> FALSE,
   got |-> "none"]

\* runQuery before it is called.  pc: "idle", "waiting" for the stream or
\* for query(), "resulted", "returned", "exited"; the other fields are
\* args.stream, args.quiet, args.verbose and the output format that
\* args.json and args.raw select; got as for runPipe.
NoQuery ==
  [pc |-> "idle", stream |-> FALSE, quiet |-> FALSE, verbose |-> FALSE,
   format |-> "markdown", got |-> "none"]

\* The message types of the backend that runAgent has no branch for.
OtherTypes == {"user", "stream_event"}

\* A variant that treats a message of another type as an error.
unhandledThrows(type) == catchBlock("runAgent")

\* The body of the for await loop for a message whose type is none of
\* 'system', 'assistant', 'result': no if applies, nothing is done.
unhandled(type) == [err |-> << >>, exitCode |-> {}]

\* The stream delivers a message of another type.
OtherMessage(type) ==
  /\ phase = "streaming"
  /\ type \notin {"system", "assistant", "result"}
  /\ LET u == unhandled(type)
     IN /\ stderr' = stderr \o u.err
        /\ exitCode' = u.exitCode
        /\ phase' = IF u.exitCode = {} THEN phase ELSE "failed"
  /\ ignoredAt' = ignoredAt \cup {pulled}
  /\ UNCHANGED <<args, task, state, stdout, session, pulled, result, prefixOk,
                 repeated, permVars>>

\* The stream delivers a system message; one whose subtype is not init is
\* noted as ignored.
NotedSystemMessage(subtype, session_id) ==
  /\ SystemMessage(subtype, session_id)
  /\ ignoredAt' = IF subtype # "init" THEN ignoredAt \cup {pulled} ELSE ignoredAt

\* ------------------------------------------------------------------------
\* runPipe and runQuery
\* ------------------------------------------------------------------------

\* The texts a result message or a query result may carry.
ResponseTexts == {<<"a">>, <<" ">>, << >>}

\* The result messages of the backend: subtype, and the result field (a
\* set: empty when the message has no such field).
SdkResults ==
  {[subtype |-> "success", result |-> {t}] : t \in ResponseTexts}
    \cup {[subtype |-> "success", result |-> {}],
          [subtype |-> "error_max_turns", result |-> {}],
          [subtype |-> "error_during_execution", result |-> {}]}

\* The clean-up of a response text: the texts of the model hold no
\* function_calls block, no code fence and no newline, which leaves trim().
cleanText(finalText) == trim(finalText)

\* The text of the last text block of a content that has a non-empty one,
\* else the text so far.
lastText(content, responseText) ==
  LET idx == {i \in 1..Len(content) :
                content[i].type = "text" /\ content[i].text # << >>}
  IN IF idx = {} THEN responseText
     ELSE content[CHOOSE i \in idx : \A j \in idx : j <= i].text

\* A variant that exits with status 0 whatever the turn came to.
exitStatusZero(success) == 0

\* process.exit(success ? 0 : 1)
exitStatus(success) == IF success THEN 0 ELSE 1

\* runPipe up to the first await of the stream.
RunPipe(json) ==
  /\ pipe.pc = "idle"
  /\ qry.pc = "idle"
  /\ exitCode = {}
  /\ pipe' = [pipe EXCEPT !.pc = "streaming", !.json = json]
  /\ UNCHANGED <<stdout, stderr, exitCode, pulled, qry>>

\* runPipe: an assistant message.
PipeAssistantMessage(content) ==
  /\ pipe.pc = "streaming"
  /\ pulled < MaxMsgs
  /\ pulled' = pulled + 1
  /\ pipe' = [pipe EXCEPT !.responseText = lastText(content, @)]
  /\ UNCHANGED <<stdout, stderr, exitCode, qry>>

\* runPipe: the result message, which ends the stream.
PipeResultMessage(r) ==
  /\ pipe.pc = "streaming"
  /\ LET success == r.subtype = "success"
         finalText == IF r.result # {} THEN CHOOSE t \in r.result : TRUE
                      ELSE pipe.responseText
     IN /\ pipe' = [pipe EXCEPT !.pc = "resulted", !.success = success,
                                !.got = r.subtype]
        /\ stdout' =
             IF success
               THEN IF pipe.json
                      THEN Append(stdout, Out("json", cleanText(finalText), << >>, 0))
                    ELSE IF cleanText(finalText) # << >>
                      THEN Append(stdout, Out("text", cleanText(finalText), << >>, 0))
                    ELSE stdout
             ELSE IF pipe.json
               THEN Append(stdout, Out("jsonError", << >>, << >>, 0))
             ELSE stdout
        /\ stderr' = IF ~success /\ ~pipe.json
                       THEN Append(stderr, Diag("", "result"))
                       ELSE stderr
  /\ UNCHANGED <<exitCode, pulled, qry>>

\* runPipe: the stream ends; process.exit(success ? 0 : 1).
PipeStreamEnd ==
  /\ pipe.pc \in {"streaming", "resulted"}
  /\ exitCode' = {exitStatus(pipe.success)}
  /\ pipe' = [pipe EXCEPT !.pc = "exited"]
  /\ UNCHANGED <<stdout, stderr, pulled, qry>>

\* runPipe: pulling the next message throws; the catch block.
PipeStreamThrows ==
  /\ pipe.pc = "streaming"
  /\ stderr' = stderr \o catchBlock("streamQuery").err
  /\ exitCode' = catchBlock("streamQuery").exitCode
  /\ pipe' = [pipe EXCEPT !.pc = "exited", !.got = "thrown"]
  /\ UNCHANGED <<stdout, pulled, qry>>

\* What query() returns: success with the response, or failure with the
\* error type and the number of entries of errors.
QueryResults ==
  {[success |-> TRUE, response |-> <<"a">>, errorType |-> "", errors |-> 0],
   [success |-> FALSE, response |-> << >>, errorType |-> "error_max_turns",
    errors |-> 0],
   [success |-> FALSE, response |-> << >>,
    errorType |-> "error_during_execution", errors |-> 1]}

\* The flags runQuery is called with.
QueryFlags ==
  [stream : BOOLEAN, quiet : BOOLEAN, verbose : BOOLEAN,
   format : {"json", "raw", "markdown"}]

\* process.stdout.write('\r\x1b[K'): the control sequence that clears the
\* line of the thinking indicator.
ClearLine == Out("clear", << >>, << >>, 0)

\* What runQuery prints for a response: JSON (with the usage in it when
\* verbose), the raw text, or the rendered markdown, the latter two with a
\* line of statistics when verbose.
queryOutput(format, verbose, text) ==
  IF format = "json" THEN <<Out("json", text, << >>, 0)>>
  ELSE <<Out(format, text, << >>, 0)>>
         \o (IF verbose THEN <<Out("stats", << >>, << >>, 0)>> ELSE << >>)

\* runQuery up to its first await: the thinking indicator.
RunQuery(flags) ==
  /\ qry.pc = "idle"
  /\ pipe.pc = "idle"
  /\ exitCode = {}
  /\ qry' = [pc |-> "waiting", stream |-> flags.stream, quiet |-> flags.quiet,
             verbose |-> flags.verbose, format |-> flags.format,
             got |-> "none"]
  /\ stdout' = IF flags.quiet THEN stdout
               ELSE Append(stdout, Out("thinking", << >>, << >>, 0))
  /\ UNCHANGED <<stderr, exitCode, pulled, pipe>>

\* runQuery, streaming: a message that is not the result.
QueryOtherMessage ==
  /\ qry.pc = "waiting"
  /\ qry.stream
  /\ pulled < MaxMsgs
  /\ pulled' = pulled + 1
  /\ UNCHANGED <<stdout, stderr, exitCode, pipe, qry>>

\* runQuery, streaming: the result message, which ends the stream.
QueryResultMessage(r) ==
  /\ qry.pc = "waiting"
  /\ qry.stream
  /\ LET rawText == IF r.subtype = "success" /\ r.result # {}
                      THEN CHOOSE t \in r.result : TRUE ELSE << >>
     IN stdout' = stdout \o (IF qry.quiet THEN << >> ELSE <<ClearLine>>)
                    \o queryOutput(qry.format, qry.verbose, cleanText(rawText))
  /\ qry' = [qry EXCEPT !.pc = "resulted", !.got = r.subtype]
  /\ UNCHANGED <<stderr, exitCode, pulled, pipe>>

\* runQuery, streaming: the stream ends and runQuery returns.
QueryStreamEnd ==
  /\ qry.pc \in {"waiting", "resulted"}
  /\ qry.stream
  /\ qry' = [qry EXCEPT !.pc = "returned"]
  /\ UNCHANGED <<stdout, stderr, exitCode, pulled, pipe>>

\* runQuery, not streaming: query() returns.
QueryReturns(q) ==
  /\ qry.pc = "waiting"
  /\ ~qry.stream
  /\ stdout' = stdout \o (IF qry.quiet THEN << >> ELSE <<ClearLine>>)
                 \o (IF q.success
                       THEN queryOutput(qry.format, qry.verbose, q.response)
                       ELSE << >>)
  /\ stderr' = IF q.success THEN stderr
               ELSE stderr \o <<Diag("Error: ", q.errorType)>>
                      \o [i \in 1..q.errors |-> Diag("  ", "errors")]
  /\ exitCode' = IF q.success THEN exitCode ELSE {1}
  /\ qry' = [qry EXCEPT !.pc = IF q.success THEN "returned" ELSE "exited",
                        !.got = IF q.success THEN "success" ELSE q.errorType]
  /\ UNCHANGED <<pulled, pipe>>

\* runQuery: an await of the try block throws; the catch block clears the
\* line, prints the error and exits.
QueryThrows ==
  /\ qry.pc = "waiting"
  /\ stdout' = Append(stdout, ClearLine)
  /\ stderr' = stderr \o catchBlock("streamQuery").err
  /\ exitCode' = catchBlock("streamQuery").exitCode
  /\ qry' = [qry EXCEPT !.pc = "exited", !.got = "thrown"]
  /\ UNCHANGED <<pulled, pipe>>

\* ------------------------------------------------------------------------
\* The markdown renderer: render and renderSync
\* ------------------------------------------------------------------------

\* The escape sequences of colors.ts, each as one character of the output.
colors ==
  [bold |-> <<"{bold}">>, dim |-> <<"{dim}">>, reset |-> <<"{reset}">>,
   muted |-> <<"{muted}">>, coral |-> <<"{coral}">>, cyan |-> <<"{cyan}">>,
   purple |-> <<"{purple}">>, yellow |-> <<"{yellow}">>]

\* The three characters outside ASCII that the renderer prints: the rule of
\* a language label and of hr, the bar of a blockquote, the bullet.
RuleChar == "{rule}"
BarChar == "{bar}"
BulletChar == "{bullet}"

\* The backtick, which a string of the model cannot hold as it is.
Backtick == "{backtick}"

\* Horizontal rule width
HR_WIDTH == 80

\* String.prototype.repeat
repeat(c, n) == [i \in 1..n |-> c]

\* The first newline of s at or after position i (Len(s) + 1 when none).
NextNewline(s, i) ==
  LET at == {j \in i..Len(s) : s[j] = "\n"}
  IN IF at = {} THEN Len(s) + 1 ELSE CHOOSE j \in at : \A k \in at : j <= k

\* s.split('\n'), from position i on.
RECURSIVE splitFrom(_, _)
splitFrom(s, i) ==
  LET j == NextNewline(s, i)
  IN IF j > Len(s) THEN <<SubSeq(s, i, Len(s))>>
     ELSE <<SubSeq(s, i, j - 1)>> \o splitFrom(s, j + 1)

splitLines(s) == splitFrom(s, 1)

\* parts.join(sep)
RECURSIVE join(_, _)
join(parts, sep) ==
  IF parts = << >> THEN << >>
  ELSE IF Len(parts) = 1 THEN parts[1]
  ELSE parts[1] \o sep \o join(Tail(parts), sep)

\* .replace(/\n{3,}/g, '\n\n'): a run of three or more newlines becomes two.
RECURSIVE collapseNewlines(_, _)
collapseNewlines(s, i) ==
  IF i > Len(s) THEN << >>
  ELSE IF s[i] # "\n"
    THEN LET j == NextNewline(s, i)
         IN SubSeq(s, i, j - 1) \o collapseNewlines(s, j)
  ELSE LET stops == {j \in i..Len(s) : s[j] # "\n"}
           end == IF stops = {} THEN Len(s) + 1
                  ELSE CHOOSE j \in stops : \A k \in stops : j <= k
       IN (IF end - i >= 3 THEN <<"\n", "\n">> ELSE SubSeq(s, i, end - 1))
            \o collapseNewlines(s, end)

\* text.replace(/(\w)_(\w)/g, '$1\\_$2'), from position i on: the matches
\* are taken from left to right and do not overlap.
RECURSIVE escapeFrom(_, _)
escapeFrom(text, i) ==
  IF i > Len(text) THEN << >>
  ELSE IF /\ i + 2 <= Len(text)
          /\ text[i] \in WordChars
          /\ text[i + 1] = "_"
          /\ text[i + 2] \in WordChars
    THEN <<text[i], "\\", "_", text[i + 2]>> \o escapeFrom(text, i + 3)
  ELSE <<text[i]>> \o escapeFrom(text, i + 1)

escapeFilenameUnderscores(text) == escapeFrom(text, 1)

\* .replace(/__(.+?)__/g, bold $1 reset), from position i on.
RECURSIVE boldFrom(_, _)
boldFrom(s, i) ==
  IF i > Len(s) THEN << >>
  ELSE
    LET closes == {j \in (i + 3)..(Len(s) - 1) :
                     /\ s[i] = "_" /\ s[i + 1] = "_"
                     /\ s[j] = "_" /\ s[j + 1] = "_"
                     /\ \A k \in (i + 2)..(j - 1) : s[k] \notin LineTerminators}
    IN IF closes # {}
         THEN LET j == CHOOSE c \in closes : \A k \in closes : c <= k
              IN colors.bold \o SubSeq(s, i + 2, j - 1) \o colors.reset
                   \o boldFrom(s, j + 2)
         ELSE <<s[i]>> \o boldFrom(s, i + 1)

\* .replace(/`([^`]+)`/g, coral $1 reset), from position i on.
RECURSIVE codeFrom(_, _)
codeFrom(s, i) ==
  IF i > Len(s) THEN << >>
  ELSE
    LET closes == {j \in (i + 2)..Len(s) :
                     /\ s[i] = Backtick /\ s[j] = Backtick
                     /\ \A k \in (i + 1)..(j - 1) : s[k] # Backtick}
    IN IF closes # {}
         THEN LET j == CHOOSE c \in closes : TRUE
              IN colors.coral \o SubSeq(s, i + 1, j - 1) \o colors.reset
                   \o codeFrom(s, j + 1)
         ELSE <<s[i]>> \o codeFrom(s, i + 1)

\* .replace(/\\_/g, '_'), from position i on.
RECURSIVE unescapeFrom(_, _)
unescapeFrom(s, i) ==
  IF i > Len(s) THEN << >>
  ELSE IF i + 1 <= Len(s) /\ s[i] = "\\" /\ s[i + 1] = "_"
    THEN <<"_">> \o unescapeFrom(s, i + 2)
  ELSE <<s[i]>> \o unescapeFrom(s, i + 1)

\* renderInline: bold, inline code, then the escapes of the pre-pass are
\* removed.  The texts of the model hold no asterisk and no bracket, so the
\* patterns of **bold**, *italic* and [links](url) match nowhere in them.
renderInline(text) == unescapeFrom(codeFrom(boldFrom(text, 1), 1), 1)

\* A token of marked.  text, tokens, items and lang are sets: empty when
\* the token has no such property, else the property's value alone.
Token(type) ==
  [type |-> type, depth |-> 0, text |-> {}, tokens |-> {}, items |-> {},
   ordered |-> FALSE, lang |-> {}, href |-> << >>]

TextToken(type, text) == [Token(type) EXCEPT !.text = {text}]

Heading(depth, text) == [TextToken("heading", text) EXCEPT !.depth = depth]

Paragraph(text) == TextToken("paragraph", text)

Code(text, lang) == [TextToken("code", text) EXCEPT !.lang = lang]

Blockquote(tokens) == [Token("blockquote") EXCEPT !.tokens = {tokens}]

ListItem(tokens) == [Token("list_item") EXCEPT !.tokens = {tokens}]

List(ordered, items) ==
  [Token("list") EXCEPT !.ordered = ordered, !.items = {items}]

\* The value of a property that is there.
The(property) == CHOOSE v \in property : TRUE

\* value ?? ''
OrEmpty(value) == IF value = {} THEN << >> ELSE The(value)

\* `${i + 1}` for the items of an ordered list.
ItemNumber(i) == <<"1", "2", "3", "4", "5", "6", "7", "8", "9">>[i]

\* tokens.map(f).join('')
mapJoin(f(_), tokens) == Concat([i \in 1..Len(tokens) |-> f(tokens[i])])

\* The two callbacks renderTokenCore is called with for nested tokens.
RECURSIVE renderNested(_)
RECURSIVE renderTokenSync(_)

\* renderNestedTokens(tokens), for the callback named by: the one of
\* renderToken maps renderNested over the tokens, the one of renderSync
\* maps renderTokenSync; any other renders nothing.
renderNestedTokens(by, tokens) ==
  Concat([i \in 1..Len(tokens) |->
            IF by = "renderNested" THEN renderNested(tokens[i])
            ELSE IF by = "renderTokenSync" THEN renderTokenSync(tokens[i])
            ELSE << >>])

\* renderTokenCore: {} is null.  by names the callback for nested tokens.
renderTokenCore(token, by) ==
  IF token.type = "heading" THEN
    LET prefix == repeat("#", token.depth)
        text == renderInline(The(token.text))
    IN IF token.depth = 1
         THEN {<<"\n">> \o colors.purple \o colors.bold \o prefix \o <<" ">>
                 \o text \o colors.reset \o <<"\n">>}
       ELSE IF token.depth = 2
         THEN {<<"\n">> \o colors.cyan \o colors.bold \o prefix \o <<" ">>
                 \o text \o colors.reset \o <<"\n">>}
       ELSE {<<"\n">> \o colors.yellow \o prefix \o <<" ">> \o text
               \o colors.reset \o <<"\n">>}
  ELSE IF token.type = "paragraph" THEN
    {renderInline(The(token.text)) \o <<"\n">>}
  ELSE IF token.type = "blockquote" THEN
    LET content == renderNestedTokens(by, The(token.tokens))
        lines == SelectSeq(splitLines(content), LAMBDA l : trim(l) # << >>)
    IN {join([i \in 1..Len(lines) |->
                colors.muted \o <<BarChar>> \o colors.reset \o <<" ">>
                  \o lines[i]],
             <<"\n">>) \o <<"\n">>}
  ELSE IF token.type = "list" THEN
    LET its == The(token.items)
        item(i) ==
          LET bullet == IF token.ordered
                          THEN colors.coral \o <<ItemNumber(i), ".">>
                                 \o colors.reset
                          ELSE colors.purple \o <<BulletChar>> \o colors.reset
              content == renderNestedTokens(by, The(its[i].tokens))
          IN <<" ", " ">> \o bullet \o <<" ">> \o trim(content)
    IN {join([i \in 1..Len(its) |-> item(i)], <<"\n">>) \o <<"\n">>}
  ELSE IF token.type = "list_item" THEN
    {renderNestedTokens(by, The(token.tokens))}
  ELSE IF token.type = "hr" THEN
    {<<"\n">> \o colors.muted \o repeat(RuleChar, HR_WIDTH) \o colors.reset
       \o <<"\n">>}
  ELSE IF token.type = "space" THEN {<<"\n">>}
  ELSE IF token.type = "text" THEN
    IF token.tokens # {} THEN {renderNestedTokens(by, The(token.tokens))}
    ELSE {renderInline(The(token.text))}
  ELSE IF token.type = "strong" THEN
    {colors.bold \o The(token.text) \o colors.reset}
  ELSE IF token.type = "em" THEN
    {colors.dim \o The(token.text) \o colors.reset}
  ELSE IF token.type = "codespan" THEN
    {colors.coral \o The(token.text) \o colors.reset}
  ELSE IF token.type = "link" THEN
    {colors.cyan \o The(token.text) \o colors.reset \o <<" ">>
       \o colors.muted \o <<"(">> \o token.href \o <<")">> \o colors.reset}
  ELSE IF token.type = "code" THEN {}
  ELSE IF token.text # {} THEN {renderInline(The(token.text))}
  ELSE {<< >>}

\* Languages we support: each name is one character of the output.
SUPPORTED_LANGS ==
  {<<"javascript">>, <<"typescript">>, <<"python">>, <<"rust">>, <<"go">>,
   <<"bash">>, <<"shell">>, <<"json">>, <<"yaml">>, <<"toml">>,
   <<"markdown">>, <<"html">>, <<"css">>, <<"sql">>, <<"diff">>}

needsHighlighting(lang) == lang \in SUPPORTED_LANGS

\* The label line of a code block.
langLabel(lang) ==
  IF lang # << >>
    THEN colors.muted \o <<RuleChar, RuleChar, RuleChar, " ">> \o colors.cyan
           \o lang \o colors.reset
    ELSE << >>

\* Render a code block without syntax highlighting (fast path)
renderCodeBlockSimple(code, lang) ==
  LET lines == splitLines(code)
      content == join([i \in 1..Len(lines) |->
                         <<" ", " ">> \o colors.coral \o lines[i]
                           \o colors.reset],
                      <<"\n">>)
  IN langLabel(lang) \o <<"\n">> \o content

\* renderCodeBlock.  For a supported language the text is what htmlToAnsi
\* leaves of hl.codeToHtml(code): the code's characters, trimmed (the
\* colour sequences shiki puts between them are left out).
renderCodeBlock(code, lang) ==
  IF ~needsHighlighting(lang) THEN renderCodeBlockSimple(code, lang)
  ELSE LET lines == splitLines(trim(code))
           content == join([i \in 1..Len(lines) |-> <<" ", " ">> \o lines[i]],
                           <<"\n">>)
       IN langLabel(lang) \o <<"\n">> \o content

\* A variant of renderNested that leaves out what is nested in a nested
\* token.
renderNestedFlat(t) == OrEmpty(renderTokenCore(t, "none"))

\* renderNested of renderToken: nested tokens are rendered by
\* renderTokenCore alone, null giving ''.
renderNested(t) == OrEmpty(renderTokenCore(t, "renderNested"))

\* Render a single markdown token (async with syntax highlighting)
renderToken(token) ==
  IF token.type = "code"
    THEN renderCodeBlock(The(token.text), OrEmpty(token.lang))
    ELSE OrEmpty(renderTokenCore(token, "renderNested"))

renderTokens(tokens) == mapJoin(renderToken, tokens)

\* renderTokenSync of renderSync
renderTokenSync(token) ==
  IF token.type = "code"
    THEN renderCodeBlockSimple(The(token.text), OrEmpty(token.lang))
           \o <<"\n">>
    ELSE OrEmpty(renderTokenCore(token, "renderTokenSync"))

\* marked.lexer, for a markdown text of one block: a fenced code block, an
\* ATX heading of level 1, or else a paragraph.  The text of the token is
\* the block's text as it stands in the markdown.
Fence == <<Backtick, Backtick, Backtick>>

IsFenced(markdown) ==
  /\ Len(markdown) >= 8
  /\ SubSeq(markdown, 1, 4) = Fence \o <<"\n">>
  /\ SubSeq(markdown, Len(markdown) - 3, Len(markdown)) = <<"\n">> \o Fence

lexer(markdown) ==
  IF IsFenced(markdown)
    THEN <<Code(SubSeq(markdown, 5, Len(markdown) - 4), {})>>
  ELSE IF IsPrefix(<<"#", " ">>, markdown)
    THEN <<Heading(1, trim(slice(markdown, 2)))>>
  ELSE <<Paragraph(markdown)>>

\* No call of the renderer.  pc: "idle"; "called" with markdown; "lexed"
\* when tokens holds the lexer's tokens.  sync and async hold the value
\* renderSync and render returned, once they did.
NoMarkdown ==
  [pc |-> "idle", markdown |-> << >>, tokens |-> << >>, sync |-> {},
   async |-> {}]

\* The head of render and of renderSync: the pre-pass, then the lexer.
Lexer ==
  /\ md.pc = "called"
  /\ md' = [md EXCEPT !.pc = "lexed",
                      !.tokens = lexer(escapeFilenameUnderscores(md.markdown))]
  /\ UNCHANGED <<app, inflight, log>>

\* renderSync, from the tokens on.
RenderSync ==
  /\ md.pc = "lexed"
  /\ md.sync = {}
  /\ md' = [md EXCEPT !.sync =
              {trim(collapseNewlines(mapJoin(renderTokenSync, md.tokens), 1))}]
  /\ UNCHANGED <<app, inflight, log>>

\* render, from the tokens on.
Render ==
  /\ md.pc = "lexed"
  /\ md.async = {}
  /\ md' = [md EXCEPT !.async =
              {trim(collapseNewlines(renderTokens(md.tokens), 1))}]
  /\ UNCHANGED <<app, inflight, log>>

\* ------------------------------------------------------------------------
\* The interactive application: App
\* ------------------------------------------------------------------------

\* Most turns App starts in a run.
MaxTurns == 2

\* Most characters typed into App's input line.
MaxKeys == 1

\* The state of App before it is mounted.  pc: "unmounted", "mounted",
\* "exited".  messages, input, isLoading and streamingText are the useState
\* values of those names (toolCalls, stats, showHelp and the input history
\* are left out).  effect: the effect of useEffect([initialPrompt,
\* submitQuery]) is due, which it is after the first render and after every
\* render that gave submitQuery a new identity, that is every render in
\* which isLoading (its dependency) has changed.  started: the number of
\* turns started so far.  Every handler reads the state of the last render.
NoApp ==
  [pc |-> "unmounted", initialPrompt |-> << >>, messages |-> << >>,
   input |-> << >>, isLoading |-> FALSE, streamingText |-> << >>,
   effect |-> FALSE, started |-> 0]

\* A turn of App: the call of submitQuery number id, its prompt, what
\* submitted it ("effect" or "key") and its local fullText.
AppTurn(id, prompt, by, fullText) ==
  [id |-> id, prompt |-> prompt, by |-> by, fullText |-> fullText]

\* An entry of messages; turn and by tell which call of submitQuery
\* appended it.
Entry(role, content, turn, by) ==
  [role |-> role, content |-> content, turn |-> turn, by |-> by]

\* What the entries of messages show: role and content.
Shown(entry) == [role |-> entry.role, content |-> entry.content]

\* A variant of the guard that does not look at isLoading.
acceptsWhileLoading(prompt, isLoading) == trim(prompt) # << >>

\* if (!prompt.trim() || isLoading) return;
accepts(prompt, isLoading) == trim(prompt) # << >> /\ ~isLoading

\* The render after a step: the effect is due when isLoading has changed.
Rerendered(a, wasLoading) == [a EXCEPT !.effect = (a.isLoading # wasLoading)]

\* submitQuery(prompt), up to its first await.
SubmitQuery(prompt, by) ==
  IF accepts(prompt, app.isLoading) THEN
    LET id == app.started + 1
    IN /\ app.started < MaxTurns
       /\ app' = Rerendered(
                   [app EXCEPT
                      !.messages = Append(@, Shown(Entry("user", prompt, id, by))),
                      !.input = << >>,
                      !.isLoading = TRUE,
                      !.streamingText = << >>,
                      !.started = id],
                   app.isLoading)
       /\ log' = Append(log, Entry("user", prompt, id, by))
       /\ inflight' = inflight \cup {AppTurn(id, prompt, by, << >>)}
  ELSE
    /\ app' = Rerendered(app, app.isLoading)
    /\ UNCHANGED <<log, inflight>>

\* render(React.createElement(App, props)): the first render.
Mount ==
  /\ app.pc = "unmounted"
  /\ app' = [app EXCEPT !.pc = "mounted", !.effect = TRUE]
  /\ UNCHANGED <<md, inflight, log>>

\* The effect runs: if (initialPrompt) void submitQuery(initialPrompt).
Effect ==
  /\ app.pc = "mounted"
  /\ app.effect
  /\ IF app.initialPrompt # << >>
       THEN SubmitQuery(app.initialPrompt, "effect")
       ELSE /\ app' = [app EXCEPT !.effect = FALSE]
            /\ UNCHANGED <<log, inflight>>
  /\ UNCHANGED md

\* useInput: a character is typed.
KeyChar(ch) ==
  /\ app.pc = "mounted"
  /\ ~app.effect
  /\ ~app.isLoading
  /\ Len(app.input) < MaxKeys
  /\ app' = [app EXCEPT !.input = Append(@, ch)]
  /\ UNCHANGED <<md, inflight, log>>

\* useInput: return.  While isLoading the handler has returned before.
KeyReturn ==
  /\ app.pc = "mounted"
  /\ ~app.effect
  /\ IF app.isLoading THEN UNCHANGED <<app, log, inflight>>
     ELSE SubmitQuery(app.input, "key")
  /\ UNCHANGED md

\* useInput: Ctrl+L clears the conversation.
KeyClear ==
  /\ app.pc = "mounted"
  /\ ~app.effect
  /\ ~app.isLoading
  /\ app' = [app EXCEPT !.messages = << >>]
  /\ UNCHANGED <<md, inflight, log>>

\* useInput: escape or Ctrl+C ends the application.
KeyExit ==
  /\ app.pc = "mounted"
  /\ ~app.effect
  /\ app' = [app EXCEPT !.pc = "exited"]
  /\ UNCHANGED <<md, inflight, log>>

\* The stream of a turn delivers an assistant message with a text block.
AppAssistantMessage(t, text) ==
  /\ app.pc = "mounted"
  /\ ~app.effect
  /\ t \in inflight
  /\ t.fullText # text
  /\ inflight' = (inflight \ {t}) \cup {[t EXCEPT !.fullText = text]}
  /\ app' = [app EXCEPT !.streamingText = text]
  /\ UNCHANGED <<md, log>>

\* A turn is over: its entry is appended and the finally block runs.
TurnOver(t, content, streamingText) ==
  /\ app.pc = "mounted"
  /\ ~app.effect
  /\ t \in inflight
  /\ inflight' = inflight \ {t}
  /\ log' = Append(log, Entry("assistant", content, t.id, t.by))
  /\ app' = Rerendered(
              [app EXCEPT
                 !.messages = Append(@, Shown(Entry("assistant", content, t.id, t.by))),
                 !.streamingText = streamingText,
                 !.isLoading = FALSE],
              app.isLoading)
  /\ UNCHANGED md

\* The stream of a turn ends: the response is appended.
StreamCompletes(t) == TurnOver(t, t.fullText, << >>)

\* getEnvironmentContext or the stream throws: the error text is appended.
AppStreamThrows(t) == TurnOver(t, <<"Error: ">>, app.streamingText)

\* The stream of some turn ends or throws.
StreamIsOver == \E t \in inflight : StreamCompletes(t) \/ AppStreamThrows(t)

\* ------------------------------------------------------------------------
\* Specifications
\* ------------------------------------------------------------------------

CliArgs == [quiet : BOOLEAN, verbose : BOOLEAN, resume : BOOLEAN]

PermInit ==
  /\ options \in PermissionHandlerOptions
  /\ alwaysApproved = {}
  /\ pending = NoRequest
  /\ decision = NoDecision

TurnInit ==
  /\ args \in CliArgs
  /\ task \in Tasks
  /\ phase = "idle"
  /\ state = InitialStreamState
  /\ stdout = << >>
  /\ session = IF args.resume THEN EarlierSession ELSE createSession
  /\ pulled = 0
  /\ result = NoResult
  /\ prefixOk = TRUE
  /\ repeated = {}
  /\ stderr = << >>
  /\ exitCode = {}

\* No query is under way.
AbortIdle ==
  /\ signal = AbortSignal(FALSE, 0)
  /\ abortController = NewAbortController
  /\ call = "none"

\* The store as createSession leaves it, no call made on it yet.
StoreIdle ==
  /\ stamps = << >>
  /\ returned = NoReturn
  /\ calls = << >>

\* No database is open.
DbIdle ==
  /\ sessions = << >>
  /\ messages = << >>
  /\ foreignKeys = FALSE
  /\ nextId = 1

\* No query was started.
ResumeIdle ==
  /\ opts = NoOptions
  /\ inits = {}

\* Neither runPipe nor runQuery was called.
ModeIdle ==
  /\ pipe = NoPipe
  /\ qry = NoQuery

\* The markdown module as loaded: no highlighter, no call under way.
HighlightIdle ==
  /\ highlighter = 0
  /\ shikiLoading = 0
  /\ loads = << >>
  /\ created = 0
  /\ callers = [c \in Callers |-> NoCall]

\* The parts that neither a turn nor the store touches, at rest.
\* Neither renderer was called and App is not mounted.
UiIdle ==
  /\ md = NoMarkdown
  /\ app = NoApp
  /\ inflight = {}
  /\ log = << >>

LaterIdle ==
  /\ HighlightIdle
  /\ ignoredAt = {}
  /\ ModeIdle
  /\ UiIdle

ExtraIdle ==
  /\ DbIdle
  /\ ResumeIdle
  /\ LaterIdle

\* The permission handler, answering the backend's requests.
PermStart ==
  /\ PermInit
  /\ args = [quiet |-> FALSE, verbose |-> FALSE, resume |-> FALSE]
  /\ task = <<"h","i">>
  /\ phase = "idle"
  /\ state = InitialStreamState
  /\ stdout = << >>
  /\ session = createSession
  /\ pulled = 0
  /\ result = NoResult
  /\ prefixOk = TRUE
  /\ repeated = {}
  /\ stderr = << >>
  /\ exitCode = {}
  /\ AbortIdle
  /\ StoreIdle
  /\ ExtraIdle

PermNext ==
  \/ \E toolName \in ToolNames : \E input \in RequestInputs(toolName) :
       CanUseTool(toolName, input)
         /\ UNCHANGED <<abortVars, turnVars, storeVars, extraVars>>
  \/ \E answer \in Answers :
       AnswerPrompt(answer) /\ UNCHANGED <<abortVars, turnVars, storeVars, extraVars>>

PermSpec == PermStart /\ [][PermNext]_vars

\* One agent turn over its message stream.
TurnStart ==
  /\ TurnInit
  /\ options = RunAgentOptions(FALSE)
  /\ alwaysApproved = {}
  /\ pending = NoRequest
  /\ decision = NoDecision
  /\ AbortIdle
  /\ StoreIdle
  /\ ExtraIdle

TurnNext ==
  \/ RunAgent /\ UNCHANGED <<abortVars, storeVars, extraVars>>
  \/ \E subtype \in {"init", "status"} : \E session_id \in {"sdk-1"} :
       SystemMessage(subtype, session_id) /\ UNCHANGED <<abortVars, storeVars, extraVars>>
  \/ \E content \in Contents :
       AssistantMessage(content) /\ UNCHANGED <<abortVars, storeVars, extraVars>>
  \/ \E r \in Results : ResultMessage(r) /\ UNCHANGED <<abortVars, storeVars, extraVars>>
  \/ StreamEnd /\ UNCHANGED <<abortVars, storeVars, extraVars>>

TurnSpec == TurnStart /\ [][TurnNext]_vars

\* No turn is under way (the turn's variables, as the specifications that
\* do not run a turn hold them).
TurnIdle ==
  /\ args = [quiet |-> FALSE, verbose |-> FALSE, resume |-> FALSE]
  /\ task = <<"h","i">>
  /\ phase = "idle"
  /\ state = InitialStreamState
  /\ stdout = << >>
  /\ session = createSession
  /\ pulled = 0
  /\ result = NoResult
  /\ prefixOk = TRUE
  /\ repeated = {}
  /\ stderr = << >>
  /\ exitCode = {}

\* A query with runAgent's permission handler and a caller's signal, which
\* the caller may have aborted already.
AbortStart ==
  /\ options = RunAgentOptions(FALSE)
  /\ alwaysApproved = {}
  /\ pending = NoRequest
  /\ decision = NoDecision
  /\ signal \in {AbortSignal(aborted, 0) : aborted \in BOOLEAN}
  /\ abortController = NewAbortController
  /\ call = "none"
  /\ TurnIdle
  /\ StoreIdle
  /\ ExtraIdle

\* The steps the program takes by itself once it has been called.
AbortProgram ==
  StreamQueryNext /\ UNCHANGED <<turnVars, storeVars, extraVars>>

AbortNext ==
  \/ Query /\ UNCHANGED <<turnVars, storeVars, extraVars>>
  \/ StreamQuery /\ UNCHANGED <<turnVars, storeVars, extraVars>>
  \/ AbortProgram
  \/ Abort /\ UNCHANGED <<turnVars, storeVars, extraVars>>
  \/ \E toolName \in ToolNames : \E input \in RequestInputs(toolName) :
       SdkCanUseTool(toolName, input) /\ UNCHANGED <<turnVars, storeVars, extraVars>>
  \/ \E answer \in Answers :
       AnswerPrompt(answer) /\ UNCHANGED <<abortVars, turnVars, storeVars, extraVars>>

\* The consumer's for await calls next() at once; the user's answer and the
\* caller's abort may never come.
AbortSpec == AbortStart /\ [][AbortNext]_vars /\ WF_vars(AbortProgram)

\* The assistant messages of the turns that may fail.
FailContents ==
  {<<TextBlock(<<"a">>)>>,
   <<TextBlock(<<"a","b">>)>>,
   <<ToolUseBlock("Grep", PatternInput)>>,
   <<TextBlock(<<"a">>), ToolUseBlock("Grep", PatternInput)>>}

FailNext ==
  \/ RunAgent /\ UNCHANGED <<abortVars, storeVars, extraVars>>
  \/ RunAgentStoreFails /\ UNCHANGED <<abortVars, storeVars, extraVars>>
  \/ \E subtype \in {"init", "status"} : \E session_id \in {"sdk-1"} :
       SystemMessage(subtype, session_id) /\ UNCHANGED <<abortVars, storeVars, extraVars>>
  \/ \E content \in FailContents :
       AssistantMessage(content) /\ UNCHANGED <<abortVars, storeVars, extraVars>>
  \/ \E r \in Results : ResultMessage(r) /\ UNCHANGED <<abortVars, storeVars, extraVars>>
  \/ \E r \in Results : \E failing \in ResultWrites :
       ResultMessageStoreFails(r, failing) /\ UNCHANGED <<abortVars, storeVars, extraVars>>
  \/ StreamThrows /\ UNCHANGED <<abortVars, storeVars, extraVars>>
  \/ StreamEnd /\ UNCHANGED <<abortVars, storeVars, extraVars>>

\* One agent turn in which the stream or the store may fail.
FailSpec == TurnStart /\ [][FailNext]_vars

\* A session just created, before any call on it.
StoreStart ==
  /\ options = RunPipeOptions
  /\ alwaysApproved = {}
  /\ pending = NoRequest
  /\ decision = NoDecision
  /\ AbortIdle
  /\ TurnIdle
  /\ StoreIdle
  /\ ExtraIdle

StoreNext ==
  \/ \E m \in StoreMessages : \E now \in Times :
       AddMessage(m, now) /\ UNCHANGED <<permVars, abortVars, runVars, extraVars>>
  \/ \E u \in StatsInputs :
       UpdateSessionStats(u) /\ UNCHANGED <<permVars, abortVars, runVars, extraVars>>
  \/ \E p \in OrderByTimestamp :
       GetSession(p) /\ UNCHANGED <<permVars, abortVars, runVars, extraVars>>

\* Calls on the store for one session.
StoreSpec == StoreStart /\ [][StoreNext]_vars

\* The database as an earlier run left it, holding one session with the two
\* messages of its turn.
DbStart ==
  /\ options = RunPipeOptions
  /\ alwaysApproved = {}
  /\ pending = NoRequest
  /\ decision = NoDecision
  /\ AbortIdle
  /\ TurnIdle
  /\ StoreIdle
  /\ ResumeIdle
  /\ LaterIdle
  /\ foreignKeys \in BOOLEAN
  /\ nextId = 1
  /\ sessions = EarlierTables.sessions
  /\ messages = EarlierTables.messages

\* The limits listSessions is called with.
Limits == {1, 2}

DbNext ==
  \/ \E now \in Times :
       DbCreateSession(now) /\ UNCHANGED notDbVars
  \/ \E id \in KnownIds : \E role \in {"user"} : \E now \in Times :
       DbAddMessage(id, role, now) /\ UNCHANGED notDbVars
  \/ \E id \in KnownIds : \E now \in Times :
       DbUpdateSessionStats(id, 3, 2, now)
         /\ UNCHANGED notDbVars
  \/ \E id \in KnownIds \cup {NoSuchId} :
       DbGetSession(id) /\ UNCHANGED notDbVars
  \/ DbGetLastSession /\ UNCHANGED notDbVars
  \/ \E limit \in Limits :
       DbListSessions(limit) /\ UNCHANGED notDbVars
  \/ \E id \in KnownIds :
       DbDeleteSession(id) /\ UNCHANGED notDbVars

\* Calls on the database, several sessions in it.
DbSpec == DbStart /\ [][DbNext]_vars

\* A turn, new or resuming the earlier run's session, on the database the
\* earlier run left.
ResumeStart ==
  /\ TurnInit
  /\ options = RunAgentOptions(FALSE)
  /\ alwaysApproved = {}
  /\ pending = NoRequest
  /\ decision = NoDecision
  /\ AbortIdle
  /\ StoreIdle
  /\ ResumeIdle
  /\ LaterIdle
  /\ sessions = EarlierTables.sessions
  /\ messages = EarlierTables.messages
  /\ foreignKeys \in BOOLEAN
  /\ nextId = 1

ResumeNext ==
  \/ \E now \in Times :
       StoredCreateSession(now) /\ UNCHANGED <<abortVars, storeVars, laterVars>>
  \/ \E now \in Times : StoredRunAgent(now) /\ UNCHANGED <<abortVars, storeVars, laterVars>>
  \/ \E subtype \in {"init", "status"} : \E session_id \in {"sdk-1"} :
       StoredSystemMessage(subtype, session_id)
         /\ UNCHANGED <<abortVars, storeVars, laterVars>>
  \/ \E content \in FailContents :
       StoredAssistantMessage(content) /\ UNCHANGED <<abortVars, storeVars, laterVars>>
  \/ \E r \in Results : \E now \in Times : \E later \in Times :
       StoredResultMessage(r, now, later) /\ UNCHANGED <<abortVars, storeVars, laterVars>>
  \/ StoredStreamEnd /\ UNCHANGED <<abortVars, storeVars, laterVars>>

ResumeSpec == ResumeStart /\ [][ResumeNext]_vars

\* The variables the highlighter leaves alone.
notHlVars ==
  <<options, alwaysApproved, pending, decision, signal, abortController, call,
    args, task, phase, state, stdout, session, pulled, result, prefixOk,
    repeated, stderr, exitCode, storeVars, dbVars, resumeVars, ignoredAt,
    modeVars, uiVars>>

\* Calls of renderCodeBlock that overlap at their awaits.
HighlightStart ==
  /\ options = RunPipeOptions
  /\ alwaysApproved = {}
  /\ pending = NoRequest
  /\ decision = NoDecision
  /\ AbortIdle
  /\ TurnIdle
  /\ StoreIdle
  /\ DbIdle
  /\ ResumeIdle
  /\ HighlightIdle
  /\ ignoredAt = {}
  /\ ModeIdle
  /\ UiIdle

HighlightNext ==
  \/ \E c \in Callers : RenderCodeBlock(c) /\ UNCHANGED notHlVars
  \/ \E i \in DOMAIN loads : ImportResolves(i) /\ UNCHANGED notHlVars
  \/ \E i \in DOMAIN loads : CreateResolves(i) /\ UNCHANGED notHlVars
  \/ \E i \in DOMAIN loads : LoadRejects(i) /\ UNCHANGED notHlVars
  \/ \E c \in Callers : Resume(c) /\ UNCHANGED notHlVars

HighlightSpec == HighlightStart /\ [][HighlightNext]_vars

\* The variables a turn over its stream leaves alone.
notStreamVars ==
  <<abortVars, storeVars, dbVars, resumeVars, hlVars, modeVars, uiVars>>

StreamNext ==
  \/ RunAgent /\ UNCHANGED <<notStreamVars, ignoredAt>>
  \/ \E subtype \in {"init", "status"} : \E session_id \in {"sdk-1"} :
       NotedSystemMessage(subtype, session_id) /\ UNCHANGED notStreamVars
  \/ \E type \in OtherTypes : OtherMessage(type) /\ UNCHANGED notStreamVars
  \/ \E content \in FailContents :
       AssistantMessage(content) /\ UNCHANGED <<notStreamVars, ignoredAt>>
  \/ \E r \in Results : ResultMessage(r) /\ UNCHANGED <<notStreamVars, ignoredAt>>
  \/ StreamEnd /\ UNCHANGED <<notStreamVars, ignoredAt>>

\* One agent turn over a stream that carries messages of every type.
StreamSpec == TurnStart /\ [][StreamNext]_vars

\* The variables runPipe and runQuery leave alone.
notModeVars ==
  <<permVars, abortVars, args, task, phase, state, session, result, prefixOk,
    repeated, storeVars, dbVars, resumeVars, hlVars, ignoredAt, uiVars>>

\* A run in pipe mode or in query mode.
ModeStart ==
  /\ options = RunPipeOptions
  /\ alwaysApproved = {}
  /\ pending = NoRequest
  /\ decision = NoDecision
  /\ AbortIdle
  /\ TurnIdle
  /\ StoreIdle
  /\ ExtraIdle

ModeNext ==
  \/ \E json \in BOOLEAN : RunPipe(json) /\ UNCHANGED notModeVars
  \/ \E content \in FailContents :
       PipeAssistantMessage(content) /\ UNCHANGED notModeVars
  \/ \E r \in SdkResults : PipeResultMessage(r) /\ UNCHANGED notModeVars
  \/ PipeStreamEnd /\ UNCHANGED notModeVars
  \/ PipeStreamThrows /\ UNCHANGED notModeVars
  \/ \E flags \in QueryFlags : RunQuery(flags) /\ UNCHANGED notModeVars
  \/ QueryOtherMessage /\ UNCHANGED notModeVars
  \/ \E r \in SdkResults : QueryResultMessage(r) /\ UNCHANGED notModeVars
  \/ QueryStreamEnd /\ UNCHANGED notModeVars
  \/ \E q \in QueryResults : QueryReturns(q) /\ UNCHANGED notModeVars
  \/ QueryThrows /\ UNCHANGED notModeVars

ModeSpec == ModeStart /\ [][ModeNext]_vars

\* Assistant messages that carry more than one text block.
TextPairs ==
  {<<TextBlock(t), TextBlock(u)>> : t \in StringsUpTo(1), u \in StringsUpTo(1)}
    \cup {<<TextBlock(t), v, TextBlock(u)>> :
            t \in {<<"a">>}, v \in ToolUses, u \in {<<"a">>, <<"b">>}}

BlockNext ==
  \/ RunAgent /\ UNCHANGED <<abortVars, storeVars, extraVars>>
  \/ \E content \in Contents \cup TextPairs :
       AssistantMessage(content) /\ UNCHANGED <<abortVars, storeVars, extraVars>>
  \/ \E r \in Results :
       ResultMessage(r) /\ UNCHANGED <<abortVars, storeVars, extraVars>>
  \/ StreamEnd /\ UNCHANGED <<abortVars, storeVars, extraVars>>

\* One agent turn whose assistant messages carry any number of text blocks.
BlockSpec == TurnStart /\ [][BlockNext]_vars

\* The variables the renderer and App leave alone.
notUiVars ==
  <<permVars, abortVars, turnVars, storeVars, dbVars, resumeVars, hlVars,
    ignoredAt, modeVars>>

\* Everything but the renderer and App, at rest.
UiRest ==
  /\ options = RunAgentOptions(FALSE)
  /\ alwaysApproved = {}
  /\ pending = NoRequest
  /\ decision = NoDecision
  /\ AbortIdle
  /\ TurnIdle
  /\ StoreIdle
  /\ DbIdle
  /\ ResumeIdle
  /\ HighlightIdle
  /\ ignoredAt = {}
  /\ ModeIdle

\* Longest text of a block of markdown.
MaxChars == 5

\* The characters of a block's text: a word character, the underscore and
\* the backslash.
MdAlphabet == {"a", "_", "\\"}

RECURSIVE MdStringsUpTo(_)
MdStringsUpTo(n) ==
  IF n = 0 THEN {<< >>}
  ELSE LET shorter == MdStringsUpTo(n - 1)
       IN shorter \cup {Append(s, c) : s \in shorter, c \in MdAlphabet}

\* The texts of a block: not empty, and not a thematic break (three or
\* more underscores and nothing else).
BlockTexts ==
  {s \in MdStringsUpTo(MaxChars) :
     /\ s # << >>
     /\ ~(Len(s) >= 3 /\ \A i \in 1..Len(s) : s[i] = "_")}

\* The markdown texts render and renderSync are called with: a paragraph, a
\* heading, a fenced code block, a paragraph that is one inline code span.
Markdowns ==
  BlockTexts
    \cup {<<"#", " ">> \o s : s \in BlockTexts}
    \cup {Fence \o <<"\n">> \o s \o <<"\n">> \o Fence : s \in BlockTexts}
    \cup {<<Backtick>> \o s \o <<Backtick>> : s \in BlockTexts}

\* render and renderSync, called with a markdown text.
EscapeStart ==
  /\ md \in {[NoMarkdown EXCEPT !.pc = "called", !.markdown = m] :
               m \in Markdowns}
  /\ app = NoApp
  /\ inflight = {}
  /\ log = << >>
  /\ UiRest

EscapeNext ==
  \/ Lexer /\ UNCHANGED notUiVars
  \/ RenderSync /\ UNCHANGED notUiVars
  \/ Render /\ UNCHANGED notUiVars

EscapeSpec == EscapeStart /\ [][EscapeNext]_vars

\* Deepest nesting of the token trees.
MaxDepth == 2

\* The texts of the tokens, as the lexer leaves them after the pre-pass.
TokenText == <<"a", "\\", "_", "b">>

\* The tokens without nested tokens.
Leaves ==
  {Paragraph(TokenText), Paragraph(<<"_", "_", "a", "_", "_">>),
   Heading(1, TokenText), Heading(2, TokenText), Heading(3, TokenText),
   Token("hr"), Token("space"), Token("br"),
   TextToken("text", TokenText), TextToken("strong", TokenText),
   TextToken("em", TokenText), TextToken("codespan", TokenText),
   TextToken("html", TokenText),
   [TextToken("link", <<"a">>) EXCEPT !.href = <<"u">>],
   Code(TokenText, {}), Code(<<"a", "\n", "b">>, {<<"txt">>})}

\* The tokens that come in pairs in the model.
PairLeaves == {Paragraph(TokenText), Token("space"), Code(TokenText, {})}

\* The token trees nested at most d deep.
RECURSIVE TreesUpTo(_)
TreesUpTo(d) ==
  IF d = 0 THEN Leaves
  ELSE LET inner == TreesUpTo(d - 1)
       IN Leaves
            \cup {Blockquote(<<t>>) : t \in inner}
            \cup {List(o, <<ListItem(<<t>>)>>) : o \in BOOLEAN, t \in inner}
            \cup {[Token("text") EXCEPT !.tokens = {<<t>>}] : t \in inner}
            \cup {Blockquote(<<t, u>>) : t \in PairLeaves, u \in PairLeaves}
            \cup {List(TRUE, <<ListItem(<<t>>), ListItem(<<u>>)>>) :
                    t \in PairLeaves, u \in PairLeaves}

\* What the lexer returned: one tree, or two tokens.
Documents ==
  {<<t>> : t \in TreesUpTo(MaxDepth)}
    \cup {<<t, u>> : t \in PairLeaves, u \in PairLeaves}

\* render and renderSync, from the lexer's tokens on.
TokenStart ==
  /\ md \in {[NoMarkdown EXCEPT !.pc = "lexed", !.tokens = d] :
               d \in Documents}
  /\ app = NoApp
  /\ inflight = {}
  /\ log = << >>
  /\ UiRest

TokenNext ==
  \/ RenderSync /\ UNCHANGED notUiVars
  \/ Render /\ UNCHANGED notUiVars

TokenSpec == TokenStart /\ [][TokenNext]_vars

\* What App may be mounted with as initialPrompt ('' is none).
InitialPrompts == {<< >>, <<"h", "i">>}

\* The characters typed.
Keys == {"h", " "}

\* The text of the assistant messages of App's streams.
AppTexts == {<<"a">>}

AppStart ==
  /\ app \in {[NoApp EXCEPT !.initialPrompt = p] : p \in InitialPrompts}
  /\ md = NoMarkdown
  /\ inflight = {}
  /\ log = << >>
  /\ UiRest

AppNext ==
  \/ Mount /\ UNCHANGED notUiVars
  \/ Effect /\ UNCHANGED notUiVars
  \/ \E ch \in Keys : KeyChar(ch) /\ UNCHANGED notUiVars
  \/ KeyReturn /\ UNCHANGED notUiVars
  \/ KeyClear /\ UNCHANGED notUiVars
  \/ KeyExit /\ UNCHANGED notUiVars
  \/ \E t \in inflight : \E text \in AppTexts :
       AppAssistantMessage(t, text) /\ UNCHANGED notUiVars
  \/ \E t \in inflight : StreamCompletes(t) /\ UNCHANGED notUiVars
  \/ \E t \in inflight : AppStreamThrows(t) /\ UNCHANGED notUiVars

\* App over its life: React runs the effect that a render left pending,
\* and the stream of a turn that was started ends or throws.
AppSpec ==
  /\ AppStart
  /\ [][AppNext]_vars
  /\ WF_vars(Effect /\ UNCHANGED notUiVars)
  /\ WF_vars(StreamIsOver /\ UNCHANGED notUiVars)

\* ------------------------------------------------------------------------
\* Properties
\* ------------------------------------------------------------------------

\* Positions of stdout that hold an entry of the given kind.
Events(kind) == {i \in 1..Len(stdout) : stdout[i].kind = kind}

\* Positions of stdout that hold the tool line of the tool_use block key.
ToolLines(key) == {i \in Events("tool") : stdout[i].key = key}

\* Everything process.stdout.write has written live, in order.
LiveText ==
  Concat([i \in 1..Len(stdout) |->
            IF stdout[i].kind = "write" THEN stdout[i].text ELSE << >>])

\* The answer, as the callback reads it.
Typed(answer) == trim(toLowerCase(answer))

IsYes(answer) == Typed(answer) \in {<<"y">>, <<"y","e","s">>}

IsAlways(answer) == Typed(answer) \in {<<"a">>, <<"a","l","w","a","y","s">>}

IsEmpty(answer) == Typed(answer) = << >>

Recognized(toolName) ==
  toolName \in AUTO_APPROVED_TOOLS \cup APPROVAL_REQUIRED_TOOLS

NamesTool(message, toolName) ==
  \E i \in 1..Len(message) : message[i] = toolName

\* The last request was a prompted Bash request for the command cmd.
PromptedFor(cmd) ==
  /\ decision.prompted
  /\ decision.toolName = "Bash"
  /\ decision.input = << <<"command", cmd>> >>

RmRf == <<"r","m"," ","-","r","f"," ","/">>

GitPushForce ==
  <<"g","i","t"," ","p","u","s","h"," ","-","-","f","o","r","c","e">>

GitPush == <<"g","i","t"," ","p","u","s","h">>

\* C1 as stated: whatever the turn's flags, every tool_use block seen has
\* exactly one tool line on the terminal and toolCount counts it once.
C1_PrintedOnceAlways ==
  /\ \A key \in state.seenTools : Cardinality(ToolLines(key)) = 1
  /\ state.toolCount = Cardinality(state.seenTools)

\* C1 amended: a tool_use block that comes in any number of assistant
\* messages of a turn is counted exactly once in toolCount; its tool line
\* is printed exactly once in a non-quiet turn and not at all in a quiet
\* turn.
C1_DedupOncePerTurn ==
  /\ \A key \in state.seenTools :
       Cardinality(ToolLines(key)) = IF args.quiet THEN 0 ELSE 1
  /\ \A i \in Events("tool") : stdout[i].key \in state.seenTools
  /\ state.toolCount = Cardinality(state.seenTools)

C1_Witness ==
  /\ ~args.quiet
  /\ pulled >= 2
  /\ state.toolCount = 1
  /\ \E key \in repeated : Cardinality(ToolLines(key)) = 1

\* C2 as stated: a request for a tool in neither list is denied with a
\* reason that names the tool, in every configuration.
C2_DenyNamingToolAlways ==
  (decision.behavior # "none" /\ ~Recognized(decision.toolName)) =>
    /\ decision.behavior = "deny"
    /\ NamesTool(decision.message, decision.toolName)

\* C2 amended: a request for a tool in neither list is never prompted for
\* and is denied in every configuration; the reason names the tool unless
\* the dry-run branch answered, whose reason is the dry-run notice.
C2_DenyByDefault ==
  /\ pending # NoRequest => pending.toolName \in APPROVAL_REQUIRED_TOOLS
  /\ (decision.behavior # "none" /\ ~Recognized(decision.toolName)) =>
       /\ decision.behavior = "deny"
       /\ ~decision.prompted
       /\ decision.message =
            IF DryRunApplies(options)
              THEN <<"[dry-run] Tool execution skipped">>
              ELSE <<"Unknown tool: ", decision.toolName>>

C2_Witness ==
  /\ decision.toolName \in UnknownTools
  /\ decision.behavior = "deny"
  /\ NamesTool(decision.message, decision.toolName)
  /\ options.mode = "prompt"
  /\ alwaysApproved # {}

\* C3 as stated: with the dry-run flag set on the handler every request is
\* denied (and none is prompted for), with or without a dryRunLogger.
C3_DryRunDeniesAll ==
  options.dryRun =>
    /\ pending = NoRequest
    /\ decision.behavior \in {"none", "deny"}

\* C4: rm -rf / is assessed high; a high-risk prompt does not offer
\* "always" and approves exactly on y/yes (so an empty answer and an
\* always answer deny); the memo changes only by adding the tool of a low
\* or medium prompt that was answered always.
C4_HighRiskGating ==
  /\ [](/\ PromptedFor(RmRf) => decision.level = "high"
        /\ pending.level = "high" => "always" \notin pending.choices
        /\ (decision.prompted /\ decision.level = "high") =>
             (decision.behavior = "allow" <=> IsYes(decision.answer)))
  /\ [][alwaysApproved' # alwaysApproved =>
          /\ pending.level \in {"low", "medium"}
          /\ decision'.prompted
          /\ IsAlways(decision'.answer)
          /\ alwaysApproved' = alwaysApproved \cup {pending.toolName}]_vars

C4_Witness ==
  /\ PromptedFor(RmRf)
  /\ IsAlways(decision.answer)
  /\ decision.behavior = "deny"
  /\ "Bash" \notin alwaysApproved
  /\ "Write" \in alwaysApproved

\* C5 as stated: git push --force is assessed medium, its prompt approves
\* on always and denies on an empty answer.
C5_ForcePushIsMedium ==
  PromptedFor(GitPushForce) =>
    /\ decision.level = "medium"
    /\ IsAlways(decision.answer) => decision.behavior = "allow"
    /\ IsEmpty(decision.answer) => decision.behavior = "deny"

\* C5 amended: git push --force matches the forced-push pattern and is
\* assessed high, so its prompt denies both an always and an empty answer;
\* git push, which matches only a medium pattern, is assessed medium: its
\* prompt approves on always (and memoizes Bash) and denies an empty
\* answer.
C5_ForcePushIsHigh ==
  /\ PromptedFor(GitPushForce) =>
       /\ decision.level = "high"
       /\ IsAlways(decision.answer) => decision.behavior = "deny"
       /\ IsEmpty(decision.answer) => decision.behavior = "deny"
  /\ PromptedFor(GitPush) =>
       /\ decision.level = "medium"
       /\ IsAlways(decision.answer) =>
            /\ decision.behavior = "allow"
            /\ options.alwaysApproved => "Bash" \in alwaysApproved
       /\ IsEmpty(decision.answer) => decision.behavior = "deny"

C5_Witness ==
  /\ PromptedFor(GitPushForce)
  /\ IsAlways(decision.answer)
  /\ decision.behavior = "deny"
  /\ "Bash" \notin alwaysApproved

\* C6: in a non-quiet turn that has shown no tool call, when every text
\* snapshot extends the one before it, what was written live, put
\* together, is the latest snapshot.
C6_PrefixMonotonic ==
  (~args.quiet /\ ~state.hasShownTools /\ prefixOk) =>
    LiveText = state.fullText

C6_Witness ==
  /\ ~args.quiet
  /\ ~state.hasShownTools
  /\ prefixOk
  /\ Cardinality(Events("write")) >= 2
  /\ LiveText = state.fullText

\* C7 as stated: in a non-quiet turn whose text was streamed live before a
\* tool line and did not change afterwards, handling the result writes no
\* response text again.
C7_NoReemissionAtResult ==
  (/\ phase = "done"
   /\ ~args.quiet
   /\ prefixOk
   /\ Events("tool") # {}
   /\ state.lastShownText # << >>
   /\ state.fullText = state.lastShownText
   /\ LiveText = state.fullText) =>
    Events("markdown") = {}

\* Number of messages the session held before the turn.
MessagesBefore == IF args.resume THEN Len(EarlierSession.messages) ELSE 0

\* C8: the user message is in the session before any stream message is
\* handled; no assistant message is appended until the result arrives; a
\* turn whose result arrived has appended exactly one assistant message,
\* with the last text seen and input_tokens + output_tokens.
C8_OneAssistantMessage ==
  LET msgs == session.messages
      n == MessagesBefore
  IN /\ phase = "idle" => Len(msgs) = n
     /\ phase # "idle" =>
          /\ Len(msgs) >= n + 1
          /\ msgs[n + 1] = Message("user", task, NoTokens)
     /\ phase \in {"streaming", "ended"} => Len(msgs) = n + 1
     /\ phase = "done" =>
          /\ Len(msgs) = n + 2
          /\ msgs[n + 2] =
               Message("assistant", state.fullText,
                       {result.input_tokens + result.output_tokens})

C8_Witness ==
  /\ phase = "done"
  /\ pulled >= 2
  /\ state.fullText # << >>
  /\ Len(session.messages) = MessagesBefore + 2
  /\ session.messages[MessagesBefore + 2].role = "assistant"

\* C9: terminal output appears in the order the messages arrived; within
\* one assistant message no live text is written after a tool line; and a
\* message that prints the turn's first tool lines has had its text
\* handled before them, so no text of it is left unshown.
C9_TextBeforeTools ==
  /\ \A i \in 1..Len(stdout) : \A j \in 1..Len(stdout) :
       i < j => stdout[i].msg <= stdout[j].msg
  /\ \A i \in Events("tool") : \A j \in Events("write") :
       stdout[i].msg = stdout[j].msg => j < i
  /\ (/\ Events("tool") # {}
      /\ \A i \in Events("tool") : stdout[i].msg = pulled) =>
       state.lastShownText = state.fullText

C9_Witness ==
  \E i \in Events("write") : \E j \in Events("tool") :
    /\ stdout[i].msg = stdout[j].msg
    /\ i < j
    /\ stdout[i].msg >= 2

\* C10: after the first tool line nothing is written live; rendered
\* Markdown is printed only when the result is handled; and a turn that
\* printed a tool line and has text prints the rendering of fullText
\* exactly once, after the tool lines.
C10_BatchRenderAfterTools ==
  /\ \A i \in Events("tool") : \A j \in Events("write") : j < i
  /\ phase # "done" => Events("markdown") = {}
  /\ (phase = "done" /\ Events("tool") # {} /\ state.fullText # << >>) =>
       /\ Cardinality(Events("markdown")) = 1
       /\ \A m \in Events("markdown") :
            /\ stdout[m].text = state.fullText
            /\ \A i \in Events("tool") : i < m

C10_Witness ==
  /\ phase = "done"
  /\ Events("tool") # {}
  /\ state.lastShownText # << >>
  /\ state.fullText # state.lastShownText
  /\ Cardinality(Events("markdown")) = 1

\* The step resolves a request for the tool (CanUseTool returned), or
\* opens a prompt for it.
Requests(toolName) ==
  \/ pending = NoRequest /\ pending' # NoRequest /\ pending'.toolName = toolName
  \/ pending = NoRequest /\ pending' = NoRequest /\ decision' # decision
       /\ decision'.toolName = toolName

\* The last decision was a prompt for some tool answered a/always.
AnsweredAlways == decision.prompted /\ IsAlways(decision.answer)

\* C11 as stated: whenever the user has answered always to a prompt for a
\* tool, the next request for that tool is allowed without a prompt.
C11_AlwaysAnswerMemoizes ==
  [][(AnsweredAlways /\ Requests(decision.toolName)) =>
       /\ pending' = NoRequest
       /\ decision'.behavior = "allow"
       /\ ~decision'.prompted]_vars

\* C11 amended: an always answer the prompt accepts (the prompt was low or
\* medium risk) on a handler created with a memo set puts the tool in the
\* memo; the memo never shrinks; a tool in the memo is never prompted for,
\* and every request for it is allowed with its input unchanged, whatever
\* the input.  An always typed at a high-risk prompt, or given to a
\* handler without a memo set, memoizes nothing.
C11_MemoAllowsLater ==
  /\ [](/\ pending # NoRequest => pending.toolName \notin alwaysApproved
        /\ (AnsweredAlways /\ decision.level # "high" /\ options.alwaysApproved)
             => decision.toolName \in alwaysApproved
        /\ (AnsweredAlways /\ (decision.level = "high" \/ ~options.alwaysApproved))
             => decision.toolName \notin alwaysApproved)
  /\ [][/\ alwaysApproved \subseteq alwaysApproved'
        /\ \A toolName \in alwaysApproved :
             Requests(toolName) =>
               /\ pending' = NoRequest
               /\ decision'.behavior = "allow"
               /\ decision'.updatedInput = decision'.input
               /\ ~decision'.prompted]_vars

\* Bash was memoized, and a later rm -rf / ran without a prompt.
C11_Witness ==
  /\ "Bash" \in alwaysApproved
  /\ decision.toolName = "Bash"
  /\ decision.input = << <<"command", RmRf>> >>
  /\ ~decision.prompted
  /\ decision.behavior = "allow"

\* C12: a handler in mode deny never opens a prompt and denies every
\* request for an approval-required tool; the handler runPipe builds, and
\* any deny-mode handler whose dry-run branch does not apply, still allows
\* the read-only tools, with the input unchanged.
C12_DenyWritesMode ==
  options.mode = "deny" =>
    /\ pending = NoRequest
    /\ decision.toolName \in APPROVAL_REQUIRED_TOOLS =>
         /\ decision.behavior = "deny"
         /\ ~decision.prompted
         /\ decision.message # << >>
    /\ (decision.toolName \in AUTO_APPROVED_TOOLS
          /\ (options = RunPipeOptions \/ ~DryRunApplies(options))) =>
         /\ decision.behavior = "allow"
         /\ decision.updatedInput = decision.input
    /\ alwaysApproved = {}

\* runPipe's handler denied a Bash request.
C12_Witness ==
  /\ options = RunPipeOptions
  /\ decision.toolName = "Bash"
  /\ decision.behavior = "deny"
  /\ decision.message = <<"Write operations not allowed in pipe mode">>

\* C13: on a handler without the dry-run flag, in either mode, a request
\* for Read, Glob or Grep never opens a prompt and is allowed with the
\* input unchanged, whatever the memo holds; resolving it leaves the memo
\* as it was, and no read-only tool is ever in the memo.
C13_ReadOnlyAutoApproved ==
  /\ [](/\ pending.toolName \notin AUTO_APPROVED_TOOLS
        /\ alwaysApproved \cap AUTO_APPROVED_TOOLS = {}
        /\ (~options.dryRun /\ decision.toolName \in AUTO_APPROVED_TOOLS) =>
             /\ decision.behavior = "allow"
             /\ decision.updatedInput = decision.input
             /\ ~decision.prompted)
  /\ [][(~options.dryRun /\ \E toolName \in AUTO_APPROVED_TOOLS :
                               Requests(toolName)) =>
          /\ pending' = NoRequest
          /\ decision'.behavior = "allow"
          /\ alwaysApproved' = alwaysApproved]_vars

\* Grep was allowed by a prompt-mode handler whose memo is not empty.
C13_Witness ==
  /\ ~options.dryRun
  /\ decision.toolName = "Grep"
  /\ decision.behavior = "allow"
  /\ decision.updatedInput = PatternInput
  /\ options.mode = "prompt"
  /\ alwaysApproved # {}

\* The caller's signal was aborted while the prompt was waiting: a prompt
\* is only opened while the backend's controller is not aborted, and the
\* controller is aborted by nothing but the signal's abort event.
AbortedWhilePending ==
  pending # NoRequest /\ signal.aborted /\ abortController.aborted

\* C14 as stated: a permission prompt that is waiting when the caller's
\* signal is aborted does not wait on for input: it gets resolved, and to
\* deny.
C14_PendingPromptDeniedOnAbort ==
  /\ [][(AbortedWhilePending /\ pending' = NoRequest) =>
          decision'.behavior = "deny"]_vars
  /\ AbortedWhilePending ~> (pending = NoRequest)

\* C15 as stated: once the backend runs, the controller it was handed is
\* aborted whenever the caller's signal is, whether the signal was aborted
\* before the call or during the stream.
C15_AbortReachesBackend ==
  (call = "running" /\ signal.aborted) => abortController.aborted

\* The session as the turn found it.
SessionBefore == IF args.resume THEN EarlierSession ELSE createSession

\* The turn ended in the catch block because pulling from the stream threw.
StreamFailed == phase = "failed" /\ result = NoResult

\* Some write to the store threw.
StoreFailed ==
  \E i \in 1..Len(stderr) : stderr[i].thrownBy \in {"addMessage", "updateSessionStats"}

\* C16: when pulling from the stream throws, the catch block writes one
\* error to stderr and exits with status 1; the step changes neither the
\* session nor the terminal nor the stream state, so the session holds
\* what was persisted before (the user message, the backend handle if an
\* init message came), no assistant message, the totals and title it had;
\* and once the process has exited nothing more is handled.
C16_StreamFailure ==
  /\ [](StreamFailed =>
          /\ exitCode = {1}
          /\ stderr = <<Diag("Error: ", "streamQuery")>>
          /\ session.messages =
               Append(SessionBefore.messages, Message("user", task, NoTokens))
          /\ session.totalTokens = SessionBefore.totalTokens
          /\ session.totalCost = SessionBefore.totalCost
          /\ session.title = SessionBefore.title)
  /\ [][(phase = "streaming" /\ phase' = "failed" /\ result' = NoResult) =>
          /\ session' = session
          /\ stdout' = stdout
          /\ state' = state]_vars
  /\ [][exitCode # {} => UNCHANGED <<state, stdout, session, pulled, stderr>>]_vars

\* The stream threw after an init message, live text and a tool line.
C16_Witness ==
  /\ StreamFailed
  /\ session.sdkSessionId = "sdk-1"
  /\ Events("write") # {}
  /\ Events("tool") # {}
  /\ Len(session.messages) = 1

\* C17 as stated: a write to the store that fails is logged, the process
\* does not exit with a non-zero status, and a turn whose result arrived
\* has its full output on the terminal (with --verbose, the statistics).
C17_StoreFailureKeepsTurn ==
  StoreFailed =>
    /\ exitCode = {}
    /\ (result # NoResult /\ args.verbose) => Events("stats") # {}

\* The calls of calls that are calls of op, in order.
CallsOf(op) == SelectSeq(calls, LAMBDA c : c.op = op)

\* t_1 + ... + t_n and c_1 + ... + c_n over the updateSessionStats calls.
RECURSIVE SumTokens(_)
SumTokens(cs) == IF cs = << >> THEN 0 ELSE Head(cs).tokens + SumTokens(Tail(cs))

RECURSIVE SumCost(_)
SumCost(cs) == IF cs = << >> THEN 0 ELSE Head(cs).cost + SumCost(Tail(cs))

\* The messages appended, in the order of the addMessage calls.
Appended == [i \in 1..Len(CallsOf("addMessage")) |-> CallsOf("addMessage")[i].message]

\* The first title passed to updateSessionStats, << >> if none was.
FirstTitle ==
  LET titled == SelectSeq(CallsOf("updateSessionStats"), LAMBDA c : c.title # << >>)
  IN IF titled = << >> THEN << >> ELSE Head(titled).title

\* C18: after createSession and any sequence of updateSessionStats and
\* addMessage calls, the session's totals, stored and fetched, are the sums
\* of the tokens and of the costs passed to updateSessionStats; the tokens
\* of the messages do not count.
C18_TotalsAdditive ==
  /\ session.totalTokens = SumTokens(CallsOf("updateSessionStats"))
  /\ session.totalCost = SumCost(CallsOf("updateSessionStats"))
  /\ returned.kind = "session" =>
       /\ returned.totalTokens = SumTokens(CallsOf("updateSessionStats"))
       /\ returned.totalCost = SumCost(CallsOf("updateSessionStats"))

\* Fetched after two updates with a message carrying tokens in between.
C18_Witness ==
  /\ returned.kind = "session"
  /\ Len(CallsOf("updateSessionStats")) = 2
  /\ \E i \in 1..Len(session.messages) : session.messages[i].tokens = {5}
  /\ returned.totalTokens = 73
  /\ returned.totalCost = 4

\* C19 as stated: getSession returns the messages in the order they were
\* appended, whatever the clock read when they were appended.
C19_AppendOrder ==
  returned.kind = "session" => returned.messages = Appended

\* C20: the stored title is the first title passed to updateSessionStats,
\* and once the session has a title no call changes it, whether the call
\* passes another title or none.
C20_TitleFirstWriteOnly ==
  /\ [](session.title = FirstTitle)
  /\ [][session.title # << >> => session'.title = session.title]_vars

\* The title was set, then an update with another title and one with none
\* came.
C20_Witness ==
  /\ session.title = <<"h","i">>
  /\ Len(calls) = 3
  /\ calls[1].title = <<"h","i">>
  /\ calls[2].title = <<"y","o">>
  /\ calls[3].op = "updateSessionStats"
  /\ calls[3].title = << >>

\* The step is a writing call op on the database.
Wrote(op) ==
  /\ Len(calls') = Len(calls) + 1
  /\ calls'[Len(calls')].op = op

\* The sessions other than id, and their message rows, are as they were.
OthersKept(id) ==
  \A j \in DOMAIN sessions \ {id} :
    /\ j \in DOMAIN sessions'
    /\ sessions'[j] = sessions[j]
    /\ RowsOf(messages', j) = RowsOf(messages, j)

\* The number of messages appended to a session: the two of the earlier
\* run for session 0, and one for each addMessage since.
AppendedTo(id) ==
  (IF id = 0 THEN 2 ELSE 0)
    + Cardinality({k \in DOMAIN calls : calls[k].op = "addMessage" /\ calls[k].id = id})

\* C21: getSession of an id that no session has (never created, or deleted)
\* returns null and of an id that a session has returns the session;
\* getLastSession on an empty store returns null; deleteSession returns true
\* exactly when a session had the id, so that a second delete of the id
\* returns false; the reads change no row and a delete changes no other
\* session.
C21_AbsentIdsAnswered ==
  [][/\ returned'.kind = "getSession"
          => (returned'.found <=> returned'.id \in DOMAIN sessions')
     /\ returned'.kind = "getLastSession"
          => (returned'.found <=> sessions' # << >>)
     /\ returned'.kind \in {"getSession", "getLastSession"}
          => UNCHANGED <<dbVars, calls>>
     /\ Wrote("deleteSession")
          => /\ returned'.found <=> returned'.id \in DOMAIN sessions
             /\ returned'.id \notin DOMAIN sessions'
             /\ OthersKept(returned'.id)]_vars

\* A second delete of an id has returned false, another session being there.
C21_Witness ==
  /\ Len(calls) >= 2
  /\ calls[Len(calls)].op = "deleteSession"
  /\ calls[Len(calls) - 1] = calls[Len(calls)]
  /\ returned.kind = "deleteSession"
  /\ ~returned.found
  /\ calls[Len(calls)].id # 0
  /\ 0 \in DOMAIN sessions

\* C22: after deleteSession(id) has succeeded no message row with
\* session_id id remains, and the other sessions and their messages are as
\* they were.
C22_DeleteCascades ==
  [][Wrote("deleteSession") /\ returned'.found
       => /\ RowsOf(messages', returned'.id) = << >>
          /\ OthersKept(returned'.id)]_vars

\* C24: addMessage and updateSessionStats set the session's updatedAt to
\* the reading of the clock at the call; getLastSession returns a session
\* whose updatedAt no other session's exceeds; listSessions returns the
\* min(limit, number of sessions) sessions of greatest updatedAt, in
\* non-increasing order of updatedAt, each with the number of messages
\* appended to it.
C24_Recency ==
  [][/\ Wrote("addMessage") \/ Wrote("updateSessionStats")
          => sessions'[calls'[Len(calls')].id].updated_at = calls'[Len(calls')].now
     /\ returned'.kind = "getLastSession" /\ returned'.found
          => \A j \in DOMAIN sessions' :
               sessions'[j].updated_at <= sessions'[returned'.id].updated_at
     /\ returned'.kind = "listSessions"
          => LET rows == returned'.rows
                 listed == {rows[i].id : i \in DOMAIN rows}
             IN /\ Len(rows) <= returned'.id
                /\ Len(rows) = Cardinality(listed)
                /\ listed \subseteq DOMAIN sessions'
                /\ Len(rows) < returned'.id => listed = DOMAIN sessions'
                /\ \A i, j \in DOMAIN rows :
                     i < j => rows[i].updatedAt >= rows[j].updatedAt
                /\ \A i \in DOMAIN rows :
                     /\ rows[i].updatedAt = sessions'[rows[i].id].updated_at
                     /\ rows[i].messageCount = AppendedTo(rows[i].id)
                     /\ \A j \in DOMAIN sessions' \ listed :
                          sessions'[j].updated_at <= rows[i].updatedAt]_vars

\* A message was appended to the older session at a later reading, and
\* getLastSession has returned that session.
C24_Witness ==
  /\ returned.kind = "getLastSession"
  /\ returned.id = 0
  /\ 1 \in DOMAIN sessions
  /\ calls # << >>
  /\ calls[Len(calls)] = DbCall("addMessage", 0, 2)
  /\ sessions[1].updated_at < sessions[0].updated_at

\* The roles of the messages the turn has appended so far.
TurnRoles ==
  IF phase = "idle" THEN << >>
  ELSE IF phase = "done" THEN <<"user", "assistant">>
  ELSE <<"user">>

\* The roles of a sequence of messages or of message rows.
Roles(msgs) == [i \in DOMAIN msgs |-> msgs[i].role]

\* C23: a resumed turn creates no session record, appends its user message
\* and then its assistant message to the resumed session, passes the
\* session's stored backend handle as the resume handle, and no init
\* message changes the stored handle; a turn on a new session passes no
\* resume handle, leaves the earlier session as it was, and stores the
\* handle of the init message in its own session.
C23_ResumeFrame ==
  /\ args.resume =>
       /\ DOMAIN sessions = {0}
       /\ nextId = 1
       /\ sessions[0].sdk_session_id = EarlierRow.sdk_session_id
       /\ session.sdkSessionId = EarlierSession.sdkSessionId
       /\ session.title = EarlierSession.title
       /\ phase # "idle" => opts.resume = {sessions[0].sdk_session_id}
       /\ Roles(messages) = Roles(EarlierRows) \o TurnRoles
       /\ \A i \in DOMAIN messages : messages[i].session_id = 0
       /\ SubSeq(messages, 1, Len(EarlierRows)) = EarlierRows
       /\ Roles(session.messages) = Roles(EarlierSession.messages) \o TurnRoles
       /\ SubSeq(session.messages, 1, Len(EarlierSession.messages))
            = EarlierSession.messages
  /\ ~args.resume =>
       /\ opts.resume = {}
       /\ sessions[0] = EarlierRow
       /\ RowsOf(messages, 0) = EarlierRows
       /\ phase # "idle" =>
            /\ DOMAIN sessions = {0, 1}
            /\ Roles(RowsOf(messages, 1)) = TurnRoles
            /\ sessions[1].sdk_session_id = session.sdkSessionId
            /\ inits # {} => sessions[1].sdk_session_id \in inits
            /\ inits = {} => sessions[1].sdk_session_id = ""

\* A resumed turn got an init message and then its result.
C23_Witness ==
  /\ args.resume
  /\ phase = "done"
  /\ inits = {"sdk-1"}
  /\ Len(RowsOf(messages, 0)) = 4

\* C25: whatever the number of calls that need highlighting and however
\* their awaits interleave, createHighlighter is called at most once, and
\* every call that goes on to highlight does so with that one instance.
C25_HighlighterSingleton ==
  /\ created <= 1
  /\ Len(loads) <= 1
  /\ highlighter \in {0, 1}
  /\ \A c \in Callers : callers[c].pc = "done" => callers[c].hl = 1

\* Two calls awaited the load and a third came once the highlighter was
\* there; all three have highlighted.
C25_Witness ==
  /\ created = 1
  /\ \A c \in Callers : callers[c].pc = "done"
  /\ \E c \in Callers : callers[c].awaits = 0
  /\ \E c, d \in Callers : c # d /\ callers[c].awaits = 1 /\ callers[d].awaits = 1

\* C27: a stream message whose type is none of system, assistant, result,
\* and a system message whose subtype is not init, leave the per-turn
\* state and the session as they were, write nothing to either stream, and
\* do not end the turn: the turn goes on streaming.
C27_UnknownMessagesIgnored ==
  [][ignoredAt' # ignoredAt
       => /\ UNCHANGED <<state, session, stdout, stderr, exitCode, pulled,
                         result, prefixOk, repeated>>
          /\ phase' = "streaming"]_vars

\* Messages were ignored before the first assistant message and after it,
\* and the turn went on to its result.
C27_Witness ==
  /\ ignoredAt = {0, 1}
  /\ phase = "done"
  /\ state.fullText # << >>
  /\ Len(session.messages) >= 2

\* C28: runPipe ends the process with status 0 exactly when a result
\* message of subtype success was received; a failure result, a stream that
\* ends without a result, and an exception end it with status 1.
C28_PipeExitStatus ==
  pipe.pc = "exited"
    => /\ exitCode \in {{0}, {1}}
       /\ exitCode = {0} <=> pipe.got = "success"

\* A run of runPipe that got a failure result has exited.
C28_Witness ==
  /\ pipe.pc = "exited"
  /\ pipe.got = "error_max_turns"
  /\ exitCode = {1}

\* The step handles a failure of the run: an exception is caught or a
\* failure result is received.
FailureStep ==
  \/ pipe'.got \notin {pipe.got, "success"}
  \/ qry'.got \notin {qry.got, "success"}

\* C29: when a run fails, by an exception of the stream or by a failure
\* result, the error is written to the diagnostic stream and nothing is
\* written to the primary output.
C29_PrimaryOutputClean ==
  [][FailureStep => stdout' = stdout /\ stderr' # stderr]_vars

\* C30: with --quiet, an agent turn that produced text has written the
\* assistant's response to the primary output by the time its result was
\* handled, whether or not the turn called tools.
C30_QuietWritesResponse ==
  args.quiet /\ phase = "done" /\ state.fullText # << >>
    => \E i \in DOMAIN stdout :
         /\ stdout[i].kind \in {"write", "markdown"}
         /\ stdout[i].text # << >>

\* C33 as stated: in prompt mode a Bash request whose command assessRisk
\* classifies as high is allowed only when a prompt was displayed for that
\* very request and answered y/yes; an always given earlier for another
\* Bash call never lets it through unprompted.
C33_HighRiskNeedsConsent ==
  (/\ options.mode = "prompt"
   /\ decision.toolName = "Bash"
   /\ assessRisk("Bash", decision.input).level = "high"
   /\ decision.behavior = "allow")
    => (decision.prompted /\ IsYes(decision.answer))

\* C34 as stated: in a non-quiet turn in which no tool call is displayed,
\* what was written live, put together, is the assistant content persisted
\* at result, whatever the texts of the stream (texts that do not extend
\* the text shown before, and messages with several text blocks, included).
C34_LiveEqualsPersisted ==
  (phase = "done" /\ ~args.quiet /\ Events("tool") = {}) =>
    LiveText = session.messages[Len(session.messages)].content

\* C35: between two stream messages, while no tool was shown lastShownText
\* is fullText, in quiet turns too; once a tool was shown lastShownText
\* does not change any more.
C35_ShownTextTracksFullText ==
  /\ [](~state.hasShownTools => state.lastShownText = state.fullText)
  /\ [][state.hasShownTools => state'.lastShownText = state.lastShownText]_vars

\* A quiet turn took a text that does not extend the one before, then a
\* tool call, then another text.
C35_Witness ==
  /\ args.quiet
  /\ ~prefixOk
  /\ state.hasShownTools
  /\ state.lastShownText # << >>
  /\ state.fullText # state.lastShownText

\* C36: toolCount is the number of keys in seenTools, hasShownTools is true
\* exactly when toolCount > 0, toolCount never decreases and hasShownTools
\* never goes back to false.
C36_ToolCounters ==
  /\ [](/\ state.toolCount = Cardinality(state.seenTools)
        /\ state.hasShownTools <=> state.toolCount > 0)
  /\ [][/\ state'.toolCount >= state.toolCount
        /\ state.hasShownTools => state'.hasShownTools]_vars

\* Two tool calls were counted and one of them came again.
C36_Witness ==
  /\ state.toolCount = 2
  /\ Cardinality(state.seenTools) = 2
  /\ repeated # {}
  /\ state.hasShownTools

\* C37 as stated: when the backend's result message has a non-success
\* subtype, runQuery has reported an error on the diagnostic stream and
\* exited with status 1 by the time it is over, with --stream as without.
C37_QueryFailureReported ==
  (/\ qry.pc \in {"returned", "exited"}
   /\ qry.got \in {"error_max_turns", "error_during_execution"})
    => (stderr # << >> /\ exitCode = {1})

\* Some token of the trees is a code block.
RECURSIVE HasCode(_)
HasCode(tokens) ==
  \E i \in 1..Len(tokens) :
    \/ tokens[i].type = "code"
    \/ tokens[i].tokens # {} /\ HasCode(The(tokens[i].tokens))
    \/ tokens[i].items # {} /\ HasCode(The(tokens[i].items))

\* The texts of the code blocks of the trees; with nested set, of those
\* only that lie in a list item or a blockquote.
RECURSIVE CodeTexts(_, _)
CodeTexts(tokens, nested) ==
  UNION {
    (IF tokens[i].type = "code" /\ nested THEN tokens[i].text ELSE {})
      \cup (IF tokens[i].tokens # {}
              THEN CodeTexts(The(tokens[i].tokens),
                             nested \/ tokens[i].type \in {"blockquote", "list_item"})
              ELSE {})
      \cup (IF tokens[i].items # {}
              THEN CodeTexts(The(tokens[i].items), nested) ELSE {})
    : i \in 1..Len(tokens)}

\* The string part occurs in the string whole.
Occurs(part, whole) ==
  \E i \in 0..(Len(whole) - Len(part)) :
    SubSeq(whole, i + 1, i + Len(part)) = part

\* Both renderers have returned.
BothRendered == md.sync # {} /\ md.async # {}

\* C31: for token trees without a code-block token, render and renderSync
\* return the same string.
C31_SyncAsyncEquivalent ==
  (BothRendered /\ ~HasCode(md.tokens)) => md.sync = md.async

\* A blockquote that holds a list was rendered by both.
C31_Witness ==
  /\ BothRendered
  /\ ~HasCode(md.tokens)
  /\ md.tokens[1].type = "blockquote"
  /\ The(md.tokens[1].tokens)[1].type = "list"
  /\ The(md.sync) # << >>

\* The number of positions of s that hold the character c.
CountOf(c, s) == Cardinality({i \in 1..Len(s) : s[i] = c})

\* The underscores of s that lie between two word characters.
InnerUnderscores(s) ==
  {i \in 2..(Len(s) - 1) :
     s[i] = "_" /\ s[i - 1] \in WordChars /\ s[i + 1] \in WordChars}

\* C32 as stated: the pre-pass puts an escape before each underscore that
\* lies between two word characters, and the rendered text holds exactly
\* the underscores of the input and no more backslashes than the input,
\* whether the text is a paragraph, a heading, inline code or a fenced code
\* block.
C32_UnderscoreRoundTrip ==
  md.sync # {} =>
    /\ CountOf("\\", escapeFilenameUnderscores(md.markdown))
         = CountOf("\\", md.markdown) + Cardinality(InnerUnderscores(md.markdown))
    /\ CountOf("_", The(md.sync)) = CountOf("_", md.markdown)
    /\ CountOf("\\", The(md.sync)) <= CountOf("\\", md.markdown)

\* C38 as stated: over the life of App the initialPrompt starts one turn
\* only: the effect appends at most one user entry.
C38_InitialPromptOnce ==
  Cardinality({i \in DOMAIN log :
                 log[i].role = "user" /\ log[i].by = "effect"}) <= 1

\* The entries of the log that a turn appended.
EntriesOf(id, role) ==
  {i \in DOMAIN log : log[i].turn = id /\ log[i].role = role}

\* The turns in flight, by number.
InFlight == {t.id : t \in inflight}

\* The entries of the log of a role.
EntriesBy(role) == {i \in DOMAIN log : log[i].role = role}

\* C39: at most one turn of App is in flight, and isLoading tells whether
\* one is; a submit while isLoading is true appends no entry and starts
\* nothing; the step that ends a turn, by completion or by an exception,
\* sets isLoading to false and appends the turn's one assistant entry right
\* after its user entry; and a turn that was started is over at some time,
\* unless the application is left before.
C39_TurnsExclusive ==
  /\ [](/\ Cardinality(inflight) <= 1
        /\ app.pc = "mounted" => (app.isLoading <=> inflight # {})
        /\ \A id \in 1..app.started :
             /\ Cardinality(EntriesOf(id, "user")) = 1
             /\ \A i \in EntriesOf(id, "user") :
                  IF \E t \in inflight : t.id = id
                    THEN i = Len(log) /\ EntriesOf(id, "assistant") = {}
                    ELSE EntriesOf(id, "assistant") = {i + 1})
  /\ [][/\ app.isLoading => (InFlight' \subseteq InFlight
                              /\ app'.started = app.started
                              /\ EntriesBy("user")' = EntriesBy("user"))
        /\ InFlight' # InFlight /\ InFlight' \subseteq InFlight
             => ~app'.isLoading /\ Len(log') = Len(log) + 1]_vars
  /\ (app.isLoading ~> (~app.isLoading \/ app.pc = "exited"))

\* App was mounted with an initialPrompt: the effect started a turn, ran
\* again while that turn was in flight, and the second turn ended by an
\* exception after the first had completed.
C39_Witness ==
  /\ app.initialPrompt # << >>
  /\ app.started = 2
  /\ ~app.isLoading
  /\ Len(log) = 4
  /\ log[1].by = "effect"
  /\ log[2].content # <<"Error: ">>
  /\ log[4].content = <<"Error: ">>

\* C40 as stated: the text of a code block nested in a list item or in a
\* blockquote occurs in what render returns, as it does in what renderSync
\* returns.
C40_NestedCodeKept ==
  BothRendered =>
    \A code \in CodeTexts(md.tokens, FALSE) :
      Occurs(code, The(md.sync)) => Occurs(code, The(md.async))

====
